---- MODULE Spec2Model ----
(***************************************************************************)
(* Model of the flask_prof social-media application (src/backend):         *)
(* the persistence model (models.py), the ownership gate                   *)
(* (auth_decorators.py), the request handlers (app_jinja.py), the          *)
(* structured/audit logger (logging_config.py, social_media_logger.py)     *)
(* and the request-logging hooks that app_jinja.py installs.               *)
(*                                                                         *)
(* Rows are records, tables are sets of rows.  Primary keys are allocated  *)
(* as the store configured in app_jinja.py (SQLite, INTEGER PRIMARY KEY)   *)
(* allocates them: one more than the largest key in the table.             *)
(* Text is a sequence of one-character strings, so that strip() is         *)
(* computed; a form field is a sequence of length 0 (absent, None) or 1.   *)
(***************************************************************************)
EXTENDS Integers, Sequences, FiniteSets, TLC

VARIABLES
    users,      \* table user:      [id, username, password_hash]
    posts,      \* table post:      [id, user_id, caption]
    comments,   \* table comment:   [id, user_id, post_id, text]
    likes,      \* table like:      [id, user_id, post_id]
    followers,  \* table followers: <<follower_id, followed_id, n>>, the n-th row
                \* stored for the pair
    session,    \* per client, the session's user_id (0: key absent)
    req,        \* per client, the request in flight (pc and its locals)
    out         \* what the step just taken returned and logged, and the rows
                \* its commit deleted

vars == <<users, posts, comments, likes, followers, session, req, out>>
db == <<users, posts, comments, likes, followers>>

----------------------------------------------------------------------------
(* Bounds of the model *)

MaxUsers == 2
MaxPosts == 2
MaxComments == 1
MaxLikes == 2
\* log payloads: nesting depth and entries per map or list
MaxDepth == 3
MaxWidth == 2

Clients == {"c1", "c2"}
OneClient == {"c1"}
Usernames == {"alice", "bob"}
Passwords == {"pw1", "pw2"}
SP == " "
RawTexts == {<<>>, <<SP>>, <<"a">>, <<SP, "b", SP>>}
\* forms of the create routes and of the edit routes
NewTexts == {<<>>, <<<<SP>>>>, <<<<"a">>>>}
EditTexts == {<<>>, <<<<SP>>>>, <<<<SP, "b", SP>>>>}
Methods == {"GET", "POST"}
\* values of uuid.uuid4()
CorrelationIds == {"uuid1", "uuid2"}

\* request.form.get(k): absent (None) or the submitted value
Field(S) == {<<>>} \cup {<<v>> : v \in S}
UserIds == 1..MaxUsers
PostIds == 1..MaxPosts
CommentIds == 1..MaxComments

----------------------------------------------------------------------------
(* Values *)

Max(S) == CHOOSE m \in S : \A x \in S : x <= m

\* str(n) of a small non-negative integer
Str(n) == IF n \in 0..9 THEN <<"0", "1", "2", "3", "4", "5", "6", "7", "8", "9">>[n + 1]
          ELSE "n"

RECURSIVE LStrip(_)
LStrip(s) == IF s # <<>> /\ Head(s) = SP THEN LStrip(Tail(s)) ELSE s

RECURSIVE RStrip(_)
RStrip(s) == IF s # <<>> /\ s[Len(s)] = SP THEN RStrip(SubSeq(s, 1, Len(s) - 1)) ELSE s

\* str.strip()
Strip(s) == RStrip(LStrip(s))

\* Python truthiness of request.form.get(k): None and "" are falsy
Truthy(f) == f # <<>> /\ Len(f[1]) > 0

\* mutant: the test without strip()
M_HasText(f) == Truthy(f)

\* `text and text.strip()` (app_jinja.py: 245, 265, 284, 323)
HasText(f) == Truthy(f) /\ Strip(f[1]) # <<>>

\* werkzeug generate_password_hash / check_password_hash
GeneratePasswordHash(pw) == <<"pbkdf2", pw>>
CheckPasswordHash(h, pw) == h = GeneratePasswordHash(pw)

----------------------------------------------------------------------------
(* The store *)

Ids(table) == {r.id : r \in table}
Has(table, id) == id \in Ids(table)
Get(table, id) == CHOOSE r \in table : r.id = id
NextId(table) == IF table = {} THEN 1 ELSE Max(Ids(table)) + 1

UserByName(name) == {u \in users : u.username = name}

\* mutant: the like table without its unique constraint
M_UniqueUserPostLikeOk(table, uid, pid) == TRUE

\* mutant: the user table without unique=True on username
M_UsernameUniqueOk(table, username) == TRUE

\* unique=True on User.username: may a row with this username be inserted?
UsernameUniqueOk(table, username) == ~ \E u \in table : u.username = username

\* UniqueConstraint('user_id', 'post_id') of Like: may this row be inserted?
UniqueUserPostLikeOk(table, uid, pid) ==
    ~ \E l \in table : l.user_id = uid /\ l.post_id = pid

\* the rows of followers for a pair
EdgesOf(table, uid, vid) == {e \in table : e[1] = uid /\ e[2] = vid}

\* mutant: the followers table without its primary key
M_FollowersPrimaryKeyOk(table, uid, vid) == TRUE

\* primary_key=True on follower_id and followed_id: may this row be inserted?
FollowersPrimaryKeyOk(table, uid, vid) == EdgesOf(table, uid, vid) = {}

\* INSERT INTO followers
FollowersInsert(table, uid, vid) ==
    table \cup {<<uid, vid, Cardinality(EdgesOf(table, uid, vid)) + 1>>}

\* User.is_following
IsFollowing(uid, vid) == EdgesOf(followers, uid, vid) # {}

\* User.follow: followed.append(user) unless already following
UserFollowEdges(uid, vid) ==
    IF ~ IsFollowing(uid, vid) THEN FollowersInsert(followers, uid, vid) ELSE followers

\* User.unfollow: followed.remove(user), DELETE FROM followers WHERE
\* follower_id = ... AND followed_id = ...
UserUnfollowEdges(uid, vid) ==
    IF IsFollowing(uid, vid) THEN followers \ EdgesOf(followers, uid, vid) ELSE followers

\* Post.likes / Post.comments with cascade='all, delete-orphan': the rows
\* that go with the posts in P
LikesOfPosts(P) == {l \in likes : l.post_id \in P}
CommentsOfPosts(P) == {c \in comments : c.post_id \in P}

\* mutant: Post.comments without the delete cascade
M_PostCascade(pid) ==
    [posts |-> {p \in posts : p.id = pid},
     likes |-> {l \in likes : l.post_id = pid},
     comments |-> {}]

\* db.session.delete(post): the post and, by cascade, its likes and comments
PostCascade(pid) ==
    [posts |-> {p \in posts : p.id = pid},
     likes |-> LikesOfPosts({pid}),
     comments |-> CommentsOfPosts({pid})]

\* mutant: the cascade stops at the user's own rows
M_UserCascade(uid) ==
    [posts |-> {p \in posts : p.user_id = uid},
     likes |-> {l \in likes : l.user_id = uid},
     comments |-> {c \in comments : c.user_id = uid}]

\* db.session.delete(user): the user's posts, likes and comments and, through
\* the posts, their likes and comments
UserCascade(uid) ==
    LET P == {p \in posts : p.user_id = uid}
    IN  [posts |-> P,
         likes |-> {l \in likes : l.user_id = uid} \cup LikesOfPosts(Ids(P)),
         comments |-> {c \in comments : c.user_id = uid} \cup CommentsOfPosts(Ids(P))]

----------------------------------------------------------------------------
(* Log records: channel, level, event and the extra fields *)

Rec(channel, level, event, fields) ==
    [channel |-> channel, level |-> level, event |-> event, fields |-> fields]

\* LoggerMixin.log_security_event
LogSecurityEvent(event_type, user_id, additional_data) ==
    <<Rec("security", "WARNING", event_type,
          [user_id |-> user_id, additional_data |-> additional_data])>>

\* LoggerMixin.log_audit_event
LogAuditEvent(action, resource_type, resource_id, user_id, changes) ==
    <<Rec("audit", "INFO", action,
          [resource_type |-> resource_type, resource_id |-> resource_id,
           user_id |-> user_id, changes |-> changes])>>

\* LoggerMixin.log_business_event
LogBusinessEvent(event, details) ==
    <<Rec("application", "INFO", "business", [event |-> event, details |-> details])>>

\* LoggerMixin.log_performance_metric
LogPerformanceMetric(operation) ==
    <<Rec("performance", "INFO", "performance",
          [operation |-> operation, duration_ms |-> "measured"])>>

\* mutant: every failure is logged with the reason invalid_credentials
M_LogLoginAttempt(username, success, failure_reason, session_uid) ==
    IF success
    THEN <<Rec("audit", "INFO", "login",
               [resource_type |-> "user_session", resource_id |-> "None",
                user_id |-> session_uid, changes |-> [status |-> "logged_in"]])>>
    ELSE <<Rec("security", "WARNING", "failed_login",
               [user_id |-> 0,
                additional_data |-> [username |-> username,
                                     failure_reason |-> "invalid_credentials"]])>>

\* SocialMediaLogger.log_login_attempt
LogLoginAttempt(username, success, failure_reason, session_uid) ==
    IF success
    THEN LogAuditEvent("login", "user_session", "None", session_uid,
                       [status |-> "logged_in"])
         \o <<Rec("application", "INFO", "login_success", [username |-> username])>>
    ELSE LogSecurityEvent("failed_login", 0,
                          [username |-> username, failure_reason |-> failure_reason])

\* mutant: the logout is written to the application log only
M_LogLogout(user_id, username) ==
    <<Rec("application", "INFO", "logout", [user_id |-> user_id, username |-> username])>>

\* SocialMediaLogger.log_logout
LogLogout(user_id, username) ==
    LogAuditEvent("logout", "user_session", "None", user_id, [status |-> "logged_out"])
    \o <<Rec("application", "INFO", "logout", [user_id |-> user_id, username |-> username])>>

\* SocialMediaLogger.log_registration
LogRegistration(username, user_id) ==
    LogAuditEvent("create", "user", Str(user_id), 0,
                  [username |-> username, status |-> "registered"])
    \o LogBusinessEvent("user_registered", [user_id |-> user_id, username |-> username])

\* SocialMediaLogger.log_post_creation
LogPostCreation(post_id, user_id, caption_length) ==
    LogAuditEvent("create", "post", Str(post_id), user_id,
                  [caption_length |-> caption_length])
    \o LogBusinessEvent("post_created",
                        [post_id |-> post_id, user_id |-> user_id,
                         caption_length |-> caption_length])

\* mutant: the audit record of an edit keeps the old caption
M_LogPostEdit(post_id, user_id, old_caption, new_caption) ==
    LogAuditEvent("update", "post", Str(post_id), user_id,
                  [old_caption |-> old_caption,
                   new_caption_length |-> Len(new_caption)])
    \o LogBusinessEvent("post_edited",
                        [post_id |-> post_id, user_id |-> user_id,
                         caption_changed |-> (old_caption # new_caption)])

\* SocialMediaLogger.log_post_edit
LogPostEdit(post_id, user_id, old_caption, new_caption) ==
    LogAuditEvent("update", "post", Str(post_id), user_id,
                  [old_caption_length |-> Len(old_caption),
                   new_caption_length |-> Len(new_caption)])
    \o LogBusinessEvent("post_edited",
                        [post_id |-> post_id, user_id |-> user_id,
                         caption_changed |-> (old_caption # new_caption)])

\* SocialMediaLogger.log_post_deletion
LogPostDeletion(post_id, user_id, likes_count, comments_count) ==
    LogAuditEvent("delete", "post", Str(post_id), user_id,
                  [likes_count |-> likes_count, comments_count |-> comments_count])
    \o LogBusinessEvent("post_deleted",
                        [post_id |-> post_id, user_id |-> user_id,
                         engagement_lost |-> [likes |-> likes_count,
                                              comments |-> comments_count]])

\* SocialMediaLogger.log_like_action
LogLikeAction(post_id, user_id, action) ==
    LogAuditEvent(action, "like", Str(user_id) \o "_" \o Str(post_id), user_id,
                  [post_id |-> post_id, action |-> action])
    \o LogBusinessEvent("post_" \o action \o "d",
                        [post_id |-> post_id, user_id |-> user_id,
                         engagement_type |-> "like"])

\* SocialMediaLogger.log_comment_creation
LogCommentCreation(comment_id, post_id, user_id, text_length) ==
    LogAuditEvent("create", "comment", Str(comment_id), user_id,
                  [post_id |-> post_id, text_length |-> text_length])
    \o LogBusinessEvent("comment_created",
                        [comment_id |-> comment_id, post_id |-> post_id,
                         user_id |-> user_id, text_length |-> text_length,
                         engagement_type |-> "comment"])

\* SocialMediaLogger.log_comment_edit
LogCommentEdit(comment_id, user_id, old_text, new_text) ==
    LogAuditEvent("update", "comment", Str(comment_id), user_id,
                  [old_text_length |-> Len(old_text), new_text_length |-> Len(new_text)])
    \o LogBusinessEvent("comment_edited",
                        [comment_id |-> comment_id, user_id |-> user_id,
                         text_changed |-> (old_text # new_text)])

\* SocialMediaLogger.log_comment_deletion
LogCommentDeletion(comment_id, post_id, user_id) ==
    LogAuditEvent("delete", "comment", Str(comment_id), user_id, [post_id |-> post_id])
    \o LogBusinessEvent("comment_deleted",
                        [comment_id |-> comment_id, post_id |-> post_id,
                         user_id |-> user_id])

\* SocialMediaLogger.log_follow_action
LogFollowAction(follower_id, followed_id, action) ==
    LogAuditEvent(action, "follow_relationship",
                  Str(follower_id) \o "_" \o Str(followed_id), follower_id,
                  [followed_user_id |-> followed_id, action |-> action])
    \o LogBusinessEvent("user_" \o action \o "ed",
                        [follower_id |-> follower_id, followed_id |-> followed_id,
                         relationship_action |-> action])

\* mutant: the requesting user's id is logged as the owner's
M_LogUnauthorizedAccess(resource_type, resource_id, user_id, owner_id, attempted_action) ==
    <<Rec("security", "WARNING", "unauthorized_access",
          [resource_type |-> resource_type, resource_id |-> resource_id,
           user_id |-> user_id, owner_id |-> user_id,
           attempted_action |-> attempted_action])>>

\* the security record of post_owner_required / comment_owner_required
LogUnauthorizedAccess(resource_type, resource_id, user_id, owner_id, attempted_action) ==
    <<Rec("security", "WARNING", "unauthorized_access",
          [resource_type |-> resource_type, resource_id |-> resource_id,
           user_id |-> user_id, owner_id |-> owner_id,
           attempted_action |-> attempted_action])>>

----------------------------------------------------------------------------
(* What a view function returns or raises *)

Result(status, location, signal, body_ran, flash, log) ==
    [status |-> status, location |-> location, signal |-> signal,
     body_ran |-> body_ran, flash |-> flash, log |-> log]

\* render_template(...): 200
Render(flash, log) == Result(200, "", "Ok", TRUE, flash, log)
\* redirect(url_for(endpoint)): 302
Redirect(endpoint, flash, log) == Result(302, endpoint, "Ok", TRUE, flash, log)
\* an exception leaves the view function
Raise(error, flash, log) == Result(0, "", error, TRUE, flash, log)

\* werkzeug: the status an HTTPException carries (abort(403), get_or_404)
ExceptionCode(error) ==
    CASE error = "Forbidden" -> 403
      [] error = "NotFound" -> 404
      [] OTHER -> 500

\* social_media_logger.log_execution_time
LogExecutionTime(operation_name, res) ==
    IF res.signal = "Ok"
    THEN [res EXCEPT !.log = @ \o LogPerformanceMetric(operation_name)]
    ELSE [res EXCEPT !.log = @ \o <<Rec("application", "ERROR", "function_failed",
                                       [operation |-> operation_name,
                                        duration_ms |-> "measured",
                                        error_type |-> res.signal])>>]

\* mutant: the wrapper logs the failure and answers with a redirect instead
\* of raising again
M_LogUserAction(action_type, user_id, res) ==
    IF res.signal = "Ok"
    THEN [res EXCEPT !.log = @ \o <<Rec("application", "INFO", "user_action_completed",
                                       [action_type |-> action_type, user_id |-> user_id,
                                        duration_ms |-> "measured", success |-> TRUE])>>]
    ELSE Redirect("home", res.flash,
                  res.log \o <<Rec("application", "ERROR", "user_action_failed",
                                   [action_type |-> action_type, user_id |-> user_id,
                                    duration_ms |-> "measured", success |-> FALSE,
                                    error_type |-> res.signal])>>)

\* social_media_logger.log_user_action
LogUserAction(action_type, user_id, res) ==
    IF res.signal = "Ok"
    THEN [res EXCEPT !.log = @ \o <<Rec("application", "INFO", "user_action_completed",
                                       [action_type |-> action_type, user_id |-> user_id,
                                        duration_ms |-> "measured", success |-> TRUE])>>]
    ELSE [res EXCEPT !.log = @ \o <<Rec("application", "ERROR", "user_action_failed",
                                       [action_type |-> action_type, user_id |-> user_id,
                                        duration_ms |-> "measured", success |-> FALSE,
                                        error_type |-> res.signal])>>]

\* mutant: the handler answers an HTTPException with the status it carries
M_HandleException(error) ==
    [status |-> ExceptionCode(error),
     log |-> <<Rec("application", "ERROR", "unhandled_exception", [error_type |-> error])>>]

\* setup_request_logging.handle_exception, registered with
\* @app.errorhandler(Exception): Flask hands it every exception that leaves a
\* view, the HTTPExceptions of abort() and get_or_404() included
HandleException(error) ==
    [status |-> 500,
     log |-> <<Rec("application", "ERROR", "unhandled_exception", [error_type |-> error])>>]

\* setup_request_logging.before_request
RequestStarted(method, route) ==
    <<Rec("application", "INFO", "request_start", [method |-> method, url |-> route])>>

\* setup_request_logging.after_request
\* (duration_ms is the time measured, whose value is not tracked)
RequestCompleted(status) ==
    <<Rec("application", "INFO", "request_end",
          [status_code |-> status, duration_ms |-> "measured"])>>

\* StructuredFormatter.format, lines 39-45: the entry written for a record
\* while g.correlation_id is set
StructuredFormat(correlation_id, record) ==
    [channel |-> record.channel, level |-> record.level, event |-> record.event,
     fields |-> record.fields, correlation_id |-> correlation_id]

\* db.session.deleted at the commit: the rows a step's commit deletes
NoRows == [posts |-> {}, likes |-> {}, comments |-> {}]

\* mutant: only the records that pass correlation_id in `extra` carry it
M_Dispatch(c, route, arg, method, res) ==
    LET h == IF res.signal = "Ok" THEN [status |-> res.status, log |-> <<>>]
             ELSE HandleException(res.signal)
        inner == res.log \o h.log
    IN  {[client |-> c, route |-> route, arg |-> arg, method |-> method,
          status |-> h.status, location |-> res.location, signal |-> res.signal,
          body_ran |-> res.body_ran, flash |-> res.flash,
          log |-> <<StructuredFormat(id, RequestStarted(method, route)[1])>>
                  \o [i \in 1..Len(inner) |-> StructuredFormat("unknown", inner[i])]
                  \o <<StructuredFormat(id, RequestCompleted(h.status)[1])>>,
          deleted |-> NoRows] : id \in CorrelationIds}

\* One request through the application of app_jinja.py: before_request
\* (which generates g.correlation_id), the view, the error handler when the
\* view raised, after_request; every record is written through a structured
\* formatter.  The set of responses, one for each id that may be generated.
Dispatch(c, route, arg, method, res) ==
    LET h == IF res.signal = "Ok" THEN [status |-> res.status, log |-> <<>>]
             ELSE HandleException(res.signal)
        emitted == RequestStarted(method, route) \o res.log \o h.log
                   \o RequestCompleted(h.status)
    IN  {[client |-> c, route |-> route, arg |-> arg, method |-> method,
          status |-> h.status, location |-> res.location, signal |-> res.signal,
          body_ran |-> res.body_ran, flash |-> res.flash,
          log |-> [i \in 1..Len(emitted) |-> StructuredFormat(id, emitted[i])],
          deleted |-> NoRows] : id \in CorrelationIds}

\* a step that is no completed request: a direct use of the model, or the
\* first half of a request
NoResponse(c, route, arg, signal) ==
    [client |-> c, route |-> route, arg |-> arg, method |-> "", status |-> 0,
     location |-> "", signal |-> signal, body_ran |-> FALSE, flash |-> "", log |-> <<>>,
     deleted |-> NoRows]

\* auth_decorators.get_current_user, given the session's user_id: the id of
\* the user found, 0 for None
GetCurrentUser(uid) == IF uid # 0 /\ Has(users, uid) THEN uid ELSE 0

Idle == [pc |-> "idle", user_id |-> 0, post_id |-> 0, existing_like |-> 0]

----------------------------------------------------------------------------
(* Authentication routes *)

LoginRequired == "Please login to access this page"

\* mutant: an unknown username is told apart from a wrong password
M_LoginViewEnumerates(uid, method, username, password) ==
    IF method # "POST" THEN [res |-> Render("", <<>>), uid |-> uid]
    ELSE IF ~ Truthy(username) \/ ~ Truthy(password)
    THEN [res |-> Render("Username and password required",
                         LogLoginAttempt(IF Truthy(username) THEN username[1] ELSE "unknown",
                                         FALSE, "missing_credentials", uid)),
          uid |-> uid]
    ELSE LET found == UserByName(username[1])
         IN  IF found = {}
             THEN [res |-> Render("Unknown user",
                                  LogLoginAttempt(username[1], FALSE, "unknown_user", uid)),
                   uid |-> uid]
             ELSE IF \E u \in found : CheckPasswordHash(u.password_hash, password[1])
             THEN [res |-> Redirect("home", "Login successful!",
                                    LogLoginAttempt(username[1], TRUE, "None",
                                                    (CHOOSE u \in found : TRUE).id)),
                   uid |-> (CHOOSE u \in found : TRUE).id]
             ELSE [res |-> Render("Invalid credentials",
                                  LogLoginAttempt(username[1], FALSE,
                                                  "invalid_credentials", uid)),
                   uid |-> uid]

\* mutant: the failed attempt is logged with the password in place of the username
M_LoginViewLogsPassword(uid, method, username, password) ==
    IF method # "POST" THEN [res |-> Render("", <<>>), uid |-> uid]
    ELSE IF ~ Truthy(username) \/ ~ Truthy(password)
    THEN [res |-> Render("Username and password required",
                         LogLoginAttempt(IF Truthy(username) THEN username[1] ELSE "unknown",
                                         FALSE, "missing_credentials", uid)),
          uid |-> uid]
    ELSE LET found == UserByName(username[1])
         IN  IF found # {} /\ \E u \in found : CheckPasswordHash(u.password_hash, password[1])
             THEN [res |-> Redirect("home", "Login successful!",
                                    LogLoginAttempt(username[1], TRUE, "None",
                                                    (CHOOSE u \in found : TRUE).id)),
                   uid |-> (CHOOSE u \in found : TRUE).id]
             ELSE [res |-> Render("Invalid credentials",
                                  LogLoginAttempt(password[1], FALSE,
                                                  "invalid_credentials", uid)),
                   uid |-> uid]

\* app_jinja.login: the result and the session's user_id afterwards
LoginView(uid, method, username, password) ==
    IF method # "POST" THEN [res |-> Render("", <<>>), uid |-> uid]
    ELSE IF ~ Truthy(username) \/ ~ Truthy(password)
    THEN [res |-> Render("Username and password required",
                         LogLoginAttempt(IF Truthy(username) THEN username[1] ELSE "unknown",
                                         FALSE, "missing_credentials", uid)),
          uid |-> uid]
    ELSE LET found == UserByName(username[1])
         IN  IF found # {} /\ \E u \in found : CheckPasswordHash(u.password_hash, password[1])
             THEN LET id == (CHOOSE u \in found : TRUE).id
                  IN  [res |-> Redirect("home", "Login successful!",
                                        LogLoginAttempt(username[1], TRUE, "None", id)),
                       uid |-> id]
             ELSE [res |-> Render("Invalid credentials",
                                  LogLoginAttempt(username[1], FALSE,
                                                  "invalid_credentials", uid)),
                   uid |-> uid]

Login(c, method, username, password) ==
    /\ req[c].pc = "idle"
    /\ LET v == LoginView(session[c], method, username, password)
       IN  /\ session' = [session EXCEPT ![c] = v.uid]
           /\ out' \in Dispatch(c, "login", 0, method, LogExecutionTime("user_login", v.res))
    /\ UNCHANGED <<db, req>>

RegistrationFailure(description, username) ==
    LogSecurityEvent("registration_failure", 0,
                     [description |-> description, username |-> username])

\* app_jinja.register
Register(c, method, username, password, confirm_password) ==
    /\ req[c].pc = "idle"
    /\ LET fail(flash, description) ==
               /\ out' \in Dispatch(c, "register", 0, method,
                             LogExecutionTime("user_registration",
                                 Render(flash, RegistrationFailure(description, username))))
               /\ UNCHANGED <<users, session>>
       IN  IF method # "POST"
           THEN /\ out' \in Dispatch(c, "register", 0, method,
                              LogExecutionTime("user_registration", Render("", <<>>)))
                /\ UNCHANGED <<users, session>>
           ELSE IF ~ Truthy(username) \/ ~ Truthy(password) \/ ~ Truthy(confirm_password)
           THEN fail("All fields are required", "missing fields")
           ELSE IF password # confirm_password
           THEN fail("Passwords do not match", "password mismatch")
           ELSE IF UserByName(username[1]) # {}
           THEN fail("Username already exists", "existing username")
           ELSE LET id == NextId(users)
                IN  /\ id <= MaxUsers
                    /\ users' = users \cup {[id |-> id, username |-> username[1],
                                 password_hash |-> GeneratePasswordHash(password[1])]}
                    /\ session' = [session EXCEPT ![c] = id]
                    /\ out' \in Dispatch(c, "register", 0, method,
                                  LogExecutionTime("user_registration",
                                      Redirect("home",
                                               "Registration successful! Welcome to Photo App!",
                                               LogRegistration(username[1], id))))
    /\ UNCHANGED <<posts, comments, likes, followers, req>>

\* app_jinja.register, lines 81-111: a POST whose form passes the three
\* checks, up to the result of User.query.filter_by(username=...).first()
RegisterRead(c, username, password) ==
    /\ req[c].pc = "idle"
    /\ UserByName(username) = {}
    /\ req' = [req EXCEPT ![c] = [pc |-> "register", username |-> username,
                                  password |-> password]]
    /\ out' = NoResponse(c, "register", 0, "Pending")
    /\ UNCHANGED <<db, session>>

\* app_jinja.register, lines 113-122: the insert and the commit (subject to
\* the unique constraint), then the session, the audit record and the redirect
RegisterWrite(c) ==
    /\ req[c].pc = "register"
    /\ LET r == req[c]
           id == NextId(users)
       IN  IF UsernameUniqueOk(users, r.username)
           THEN /\ id <= MaxUsers
                /\ users' = users \cup {[id |-> id, username |-> r.username,
                                 password_hash |-> GeneratePasswordHash(r.password)]}
                /\ session' = [session EXCEPT ![c] = id]
                /\ out' \in Dispatch(c, "register", 0, "POST",
                              LogExecutionTime("user_registration",
                                  Redirect("home",
                                           "Registration successful! Welcome to Photo App!",
                                           LogRegistration(r.username, id))))
           ELSE /\ out' \in Dispatch(c, "register", 0, "POST",
                              LogExecutionTime("user_registration",
                                               Raise("IntegrityError", "", <<>>)))
                /\ UNCHANGED <<users, session>>
    /\ req' = [req EXCEPT ![c] = Idle]
    /\ UNCHANGED <<posts, comments, likes, followers>>

\* mutant: session.pop('user_id', None) is missing
M_Logout(c) ==
    /\ req[c].pc = "idle"
    /\ out' \in Dispatch(c, "logout", 0, "GET",
                  LogExecutionTime("user_logout",
                      Redirect("login", "You have been logged out",
                               IF session[c] # 0
                               THEN LogLogout(session[c],
                                              IF GetCurrentUser(session[c]) # 0
                                              THEN Get(users, session[c]).username
                                              ELSE "unknown")
                               ELSE <<>>)))
    /\ UNCHANGED <<db, req, session>>

\* app_jinja.logout
Logout(c) ==
    /\ req[c].pc = "idle"
    /\ LET user_id == session[c]
           user == GetCurrentUser(user_id)
           log == IF user_id # 0
                  THEN LogLogout(user_id, IF user # 0 THEN Get(users, user).username
                                          ELSE "unknown")
                  ELSE <<>>
       IN  out' \in Dispatch(c, "logout", 0, "GET",
                      LogExecutionTime("user_logout",
                          Redirect("login", "You have been logged out", log)))
    /\ session' = [session EXCEPT ![c] = 0]
    /\ UNCHANGED <<db, req>>

----------------------------------------------------------------------------
(* The ownership gate (auth_decorators.py) *)

\* mutant: the comparison inverted
M_OwnerMismatch(owner_id, user_id) == owner_id = user_id

\* `post.user_id != current_user.id`
OwnerMismatch(owner_id, user_id) == owner_id # user_id

\* mutant: the security record is written but abort(403) is missing
M_PostOwnerRequired(uid, post_id, fname) ==
    IF uid = 0
    THEN [pass |-> FALSE, res |-> [Redirect("login", LoginRequired, <<>>)
                                    EXCEPT !.body_ran = FALSE]]
    ELSE IF ~ Has(posts, post_id)
    THEN [pass |-> FALSE, res |-> [Raise("NotFound", "", <<>>) EXCEPT !.body_ran = FALSE]]
    ELSE IF GetCurrentUser(uid) = 0
    THEN [pass |-> FALSE, res |-> [Raise("AttributeError", "", <<>>)
                                    EXCEPT !.body_ran = FALSE]]
    ELSE [pass |-> TRUE, res |-> Render("", <<>>)]

\* mutant: the post is loaded before the session is looked at
M_PostOwnerRequiredOrder(uid, post_id, fname) ==
    IF ~ Has(posts, post_id)
    THEN [pass |-> FALSE, res |-> [Raise("NotFound", "", <<>>) EXCEPT !.body_ran = FALSE]]
    ELSE IF uid = 0
    THEN [pass |-> FALSE, res |-> [Redirect("login", LoginRequired, <<>>)
                                    EXCEPT !.body_ran = FALSE]]
    ELSE IF GetCurrentUser(uid) = 0
    THEN [pass |-> FALSE, res |-> [Raise("AttributeError", "", <<>>)
                                    EXCEPT !.body_ran = FALSE]]
    ELSE IF OwnerMismatch(Get(posts, post_id).user_id, GetCurrentUser(uid))
    THEN [pass |-> FALSE,
          res |-> [Raise("Forbidden", "",
                         LogUnauthorizedAccess("post", post_id, GetCurrentUser(uid),
                                               Get(posts, post_id).user_id, fname))
                   EXCEPT !.body_ran = FALSE]]
    ELSE [pass |-> TRUE, res |-> Render("", <<>>)]

\* post_owner_required, up to the call of the wrapped view f (named fname):
\* pass = TRUE when f is called, else the result the decorator ends with
PostOwnerRequired(uid, post_id, fname) ==
    IF uid = 0
    THEN [pass |-> FALSE, res |-> [Redirect("login", LoginRequired, <<>>)
                                    EXCEPT !.body_ran = FALSE]]
    ELSE IF ~ Has(posts, post_id)
    THEN [pass |-> FALSE, res |-> [Raise("NotFound", "", <<>>) EXCEPT !.body_ran = FALSE]]
    ELSE IF GetCurrentUser(uid) = 0
    THEN [pass |-> FALSE, res |-> [Raise("AttributeError", "", <<>>)
                                    EXCEPT !.body_ran = FALSE]]
    ELSE IF OwnerMismatch(Get(posts, post_id).user_id, GetCurrentUser(uid))
    THEN [pass |-> FALSE,
          res |-> [Raise("Forbidden", "",
                         LogUnauthorizedAccess("post", post_id, GetCurrentUser(uid),
                                               Get(posts, post_id).user_id, fname))
                   EXCEPT !.body_ran = FALSE]]
    ELSE [pass |-> TRUE, res |-> Render("", <<>>)]

\* comment_owner_required
CommentOwnerRequired(uid, comment_id, fname) ==
    IF uid = 0
    THEN [pass |-> FALSE, res |-> [Redirect("login", LoginRequired, <<>>)
                                    EXCEPT !.body_ran = FALSE]]
    ELSE IF ~ Has(comments, comment_id)
    THEN [pass |-> FALSE, res |-> [Raise("NotFound", "", <<>>) EXCEPT !.body_ran = FALSE]]
    ELSE IF GetCurrentUser(uid) = 0
    THEN [pass |-> FALSE, res |-> [Raise("AttributeError", "", <<>>)
                                    EXCEPT !.body_ran = FALSE]]
    ELSE IF OwnerMismatch(Get(comments, comment_id).user_id, GetCurrentUser(uid))
    THEN [pass |-> FALSE,
          res |-> [Raise("Forbidden", "",
                         LogUnauthorizedAccess("comment", comment_id, GetCurrentUser(uid),
                                               Get(comments, comment_id).user_id, fname))
                   EXCEPT !.body_ran = FALSE]]
    ELSE [pass |-> TRUE, res |-> Render("", <<>>)]

----------------------------------------------------------------------------
(* Post and comment routes *)

\* app_jinja.create_post
CreatePost(c, caption) ==
    /\ req[c].pc = "idle"
    /\ LET uid == session[c]
           user == GetCurrentUser(uid)
           id == NextId(posts)
       IN  IF uid = 0
           THEN /\ out' \in Dispatch(c, "create_post", 0, "POST",
                              LogUserAction("create_post", uid, Redirect("login", "", <<>>)))
                /\ UNCHANGED posts
           ELSE IF ~ HasText(caption)
           THEN /\ out' \in Dispatch(c, "create_post", 0, "POST",
                              LogUserAction("create_post", uid, Redirect("home", "", <<>>)))
                /\ UNCHANGED posts
           ELSE IF user = 0
           THEN /\ out' \in Dispatch(c, "create_post", 0, "POST",
                              LogUserAction("create_post", uid,
                                            Raise("AttributeError", "", <<>>)))
                /\ UNCHANGED posts
           ELSE /\ id <= MaxPosts
                /\ posts' = posts \cup {[id |-> id, user_id |-> user,
                                         caption |-> Strip(caption[1])]}
                /\ out' \in Dispatch(c, "create_post", 0, "POST",
                              LogUserAction("create_post", uid,
                                  Redirect("home", "Post created!",
                                           LogPostCreation(id, user, Len(Strip(caption[1]))))))
    /\ UNCHANGED <<users, comments, likes, followers, session, req>>

\* app_jinja.add_comment
AddComment(c, post_id, text) ==
    /\ req[c].pc = "idle"
    /\ LET uid == session[c]
           user == GetCurrentUser(uid)
           id == NextId(comments)
           done(res) == /\ out' \in Dispatch(c, "add_comment", post_id, "POST",
                                      LogUserAction("add_comment", uid, res))
                        /\ UNCHANGED comments
       IN  IF uid = 0 THEN done(Redirect("login", "", <<>>))
           ELSE IF ~ Has(posts, post_id) THEN done(Raise("NotFound", "", <<>>))
           ELSE IF ~ HasText(text) THEN done(Redirect("home", "", <<>>))
           ELSE IF user = 0 THEN done(Raise("AttributeError", "", <<>>))
           ELSE /\ id <= MaxComments
                /\ comments' = comments \cup {[id |-> id, user_id |-> user,
                                  post_id |-> post_id, text |-> Strip(text[1])]}
                /\ out' \in Dispatch(c, "add_comment", post_id, "POST",
                              LogUserAction("add_comment", uid,
                                  Redirect("home", "Comment added!",
                                      LogCommentCreation(id, post_id, user,
                                                         Len(Strip(text[1]))))))
    /\ UNCHANGED <<users, posts, likes, followers, session, req>>

\* app_jinja.edit_post behind post_owner_required
EditPost(c, post_id, method, caption) ==
    /\ req[c].pc = "idle"
    /\ LET uid == session[c]
           gate == PostOwnerRequired(uid, post_id, "edit_post")
           post == Get(posts, post_id)
       IN  IF ~ gate.pass
           THEN /\ out' \in Dispatch(c, "edit_post", post_id, method, gate.res)
                /\ UNCHANGED posts
           ELSE IF method = "POST" /\ HasText(caption)
           THEN /\ posts' = (posts \ {post})
                             \cup {[post EXCEPT !.caption = Strip(caption[1])]}
                /\ out' \in Dispatch(c, "edit_post", post_id, method,
                              LogUserAction("edit_post", uid,
                                  Redirect("home", "Post updated successfully!",
                                      LogPostEdit(post_id, uid, post.caption,
                                                  Strip(caption[1])))))
           ELSE /\ out' \in Dispatch(c, "edit_post", post_id, method,
                              LogUserAction("edit_post", uid,
                                  Render(IF method = "POST" THEN "Caption cannot be empty"
                                         ELSE "", <<>>)))
                /\ UNCHANGED posts
    /\ UNCHANGED <<users, comments, likes, followers, session, req>>

\* app_jinja.delete_post behind post_owner_required
DeletePost(c, post_id) ==
    /\ req[c].pc = "idle"
    /\ LET uid == session[c]
           gate == PostOwnerRequired(uid, post_id, "delete_post")
           gone == PostCascade(post_id)
       IN  IF ~ gate.pass
           THEN /\ out' \in Dispatch(c, "delete_post", post_id, "POST", gate.res)
                /\ UNCHANGED <<posts, likes, comments>>
           ELSE /\ posts' = posts \ gone.posts
                /\ likes' = likes \ gone.likes
                /\ comments' = comments \ gone.comments
                /\ out' \in {[o EXCEPT !.deleted = gone] : o \in
                           Dispatch(c, "delete_post", post_id, "POST",
                               LogUserAction("delete_post", uid,
                                   Redirect("home", "Post deleted successfully!",
                                       LogPostDeletion(post_id, uid,
                                           Cardinality(LikesOfPosts({post_id})),
                                           Cardinality(CommentsOfPosts({post_id})))))) }
    /\ UNCHANGED <<users, followers, session, req>>

\* app_jinja.edit_comment behind comment_owner_required
EditComment(c, comment_id, method, text) ==
    /\ req[c].pc = "idle"
    /\ LET uid == session[c]
           gate == CommentOwnerRequired(uid, comment_id, "edit_comment")
           comment == Get(comments, comment_id)
       IN  IF ~ gate.pass
           THEN /\ out' \in Dispatch(c, "edit_comment", comment_id, method, gate.res)
                /\ UNCHANGED comments
           ELSE IF method = "POST" /\ HasText(text)
           THEN /\ comments' = (comments \ {comment})
                                \cup {[comment EXCEPT !.text = Strip(text[1])]}
                /\ out' \in Dispatch(c, "edit_comment", comment_id, method,
                              LogUserAction("edit_comment", uid,
                                  Redirect("home", "Comment updated successfully!",
                                      LogCommentEdit(comment_id, uid, comment.text,
                                                     Strip(text[1])))))
           ELSE /\ out' \in Dispatch(c, "edit_comment", comment_id, method,
                              LogUserAction("edit_comment", uid,
                                  Render(IF method = "POST" THEN "Comment cannot be empty"
                                         ELSE "", <<>>)))
                /\ UNCHANGED comments
    /\ UNCHANGED <<users, posts, likes, followers, session, req>>

\* app_jinja.delete_comment behind comment_owner_required
DeleteComment(c, comment_id) ==
    /\ req[c].pc = "idle"
    /\ LET uid == session[c]
           gate == CommentOwnerRequired(uid, comment_id, "delete_comment")
           comment == Get(comments, comment_id)
       IN  IF ~ gate.pass
           THEN /\ out' \in Dispatch(c, "delete_comment", comment_id, "POST", gate.res)
                /\ UNCHANGED comments
           ELSE /\ comments' = comments \ {comment}
                /\ out' \in {[o EXCEPT !.deleted.comments = {comment}] : o \in
                           Dispatch(c, "delete_comment", comment_id, "POST",
                               LogUserAction("delete_comment", uid,
                                   Redirect("home", "Comment deleted successfully!",
                                       LogCommentDeletion(comment_id, comment.post_id, uid)))) }
    /\ UNCHANGED <<users, posts, likes, followers, session, req>>

----------------------------------------------------------------------------
(* Follow and like routes *)

\* app_jinja.follow_user
FollowUser(c, user_id) ==
    /\ req[c].pc = "idle"
    /\ LET uid == session[c]
           current_user == GetCurrentUser(uid)
           done(res) == /\ out' \in Dispatch(c, "follow_user", user_id, "GET",
                                      LogUserAction("follow_user", uid, res))
                        /\ UNCHANGED followers
       IN  IF uid = 0 THEN done(Redirect("login", "", <<>>))
           ELSE IF ~ Has(users, user_id) THEN done(Raise("NotFound", "", <<>>))
           ELSE IF current_user = 0 THEN done(Raise("AttributeError", "", <<>>))
           ELSE IF current_user = user_id
           THEN done(Redirect("home", "You cannot follow yourself",
                              LogSecurityEvent("invalid_operation", current_user,
                                  [description |-> "User attempted to follow themselves"])))
           ELSE /\ followers' = UserFollowEdges(current_user, user_id)
                /\ out' \in Dispatch(c, "follow_user", user_id, "GET",
                              LogUserAction("follow_user", uid,
                                  Redirect("home", "You are now following",
                                      LogFollowAction(current_user, user_id, "follow"))))
    /\ UNCHANGED <<users, posts, comments, likes, session, req>>

\* app_jinja.unfollow_user
UnfollowUser(c, user_id) ==
    /\ req[c].pc = "idle"
    /\ LET uid == session[c]
           current_user == GetCurrentUser(uid)
           done(res) == /\ out' \in Dispatch(c, "unfollow_user", user_id, "GET",
                                      LogUserAction("unfollow_user", uid, res))
                        /\ UNCHANGED followers
       IN  IF uid = 0 THEN done(Redirect("login", "", <<>>))
           ELSE IF ~ Has(users, user_id) THEN done(Raise("NotFound", "", <<>>))
           ELSE IF current_user = 0 THEN done(Raise("AttributeError", "", <<>>))
           ELSE /\ followers' = UserUnfollowEdges(current_user, user_id)
                /\ out' \in Dispatch(c, "unfollow_user", user_id, "GET",
                              LogUserAction("unfollow_user", uid,
                                  Redirect("home", "You unfollowed",
                                      LogFollowAction(current_user, user_id, "unfollow"))))
    /\ UNCHANGED <<users, posts, comments, likes, session, req>>

\* app_jinja.follow_user, lines 175-188: the session check and the reads, up
\* to the is_following test inside User.follow
FollowUserRead(c, user_id) ==
    /\ req[c].pc = "idle"
    /\ LET uid == session[c]
           current_user == GetCurrentUser(uid)
           done(res) == /\ out' \in Dispatch(c, "follow_user", user_id, "GET",
                                      LogUserAction("follow_user", uid, res))
                        /\ UNCHANGED req
       IN  IF uid = 0 THEN done(Redirect("login", "", <<>>))
           ELSE IF ~ Has(users, user_id) THEN done(Raise("NotFound", "", <<>>))
           ELSE IF current_user = 0 THEN done(Raise("AttributeError", "", <<>>))
           ELSE IF current_user = user_id
           THEN done(Redirect("home", "You cannot follow yourself",
                              LogSecurityEvent("invalid_operation", current_user,
                                  [description |-> "User attempted to follow themselves"])))
           ELSE /\ req' = [req EXCEPT ![c] =
                              [pc |-> "follow_user", user_id |-> current_user,
                               followed_id |-> user_id,
                               is_following |-> IsFollowing(current_user, user_id)]]
                /\ out' = NoResponse(c, "follow_user", user_id, "Pending")
    /\ UNCHANGED <<db, session>>

\* app_jinja.follow_user, lines 188-192: followed.append(user) when the test
\* found no row, the commit (the insert is subject to the primary key), the
\* audit record and the redirect
FollowUserWrite(c) ==
    /\ req[c].pc = "follow_user"
    /\ LET r == req[c]
           refused == ~ r.is_following
                      /\ ~ FollowersPrimaryKeyOk(followers, r.user_id, r.followed_id)
       IN  /\ followers' = IF r.is_following \/ refused THEN followers
                           ELSE FollowersInsert(followers, r.user_id, r.followed_id)
           /\ out' \in Dispatch(c, "follow_user", r.followed_id, "GET",
                         LogUserAction("follow_user", r.user_id,
                             IF refused THEN Raise("IntegrityError", "", <<>>)
                             ELSE Redirect("home", "You are now following",
                                      LogFollowAction(r.user_id, r.followed_id,
                                                      "follow"))))
    /\ req' = [req EXCEPT ![c] = Idle]
    /\ UNCHANGED <<users, posts, comments, likes, session>>

\* app_jinja.index
Index(c) ==
    /\ req[c].pc = "idle"
    /\ out' \in Dispatch(c, "index", 0, "GET",
                  IF session[c] = 0 THEN Redirect("login", "", <<>>)
                  ELSE Redirect("home", "", <<>>))
    /\ UNCHANGED <<db, session, req>>

\* app_jinja.home: the feed of the current user, read only
Home(c) ==
    /\ req[c].pc = "idle"
    /\ out' \in Dispatch(c, "home", 0, "GET",
                  IF session[c] = 0 THEN Redirect("login", "", <<>>)
                  ELSE IF GetCurrentUser(session[c]) = 0
                  THEN Raise("AttributeError", "", <<>>)
                  ELSE Render("", <<>>))
    /\ UNCHANGED <<db, session, req>>

\* mutant: the branch on existing_like always takes the insert
M_ToggleBranch(existing_like) == "like"

\* `if existing_like:` of toggle_like: which branch the view takes
ToggleBranch(existing_like) == IF existing_like # 0 THEN "unlike" ELSE "like"

\* Like.query.filter_by(user_id=..., post_id=...).first(): the id of the row
\* found, 0 for None
ExistingLike(table, uid, pid) ==
    LET found == {l \in table : l.user_id = uid /\ l.post_id = pid}
    IN  IF found = {} THEN 0 ELSE (CHOOSE l \in found : TRUE).id

\* toggle_like's write and commit on the like table: the table afterwards and
\* what happened (the delete is by primary key; the insert is subject to the
\* unique constraint)
ToggleLikeCommit(table, uid, pid, existing_like) ==
    IF ToggleBranch(existing_like) = "unlike"
    THEN [likes |-> {l \in table : l.id # existing_like}, action |-> "unlike"]
    ELSE IF UniqueUserPostLikeOk(table, uid, pid)
    THEN [likes |-> table \cup {[id |-> NextId(table), user_id |-> uid, post_id |-> pid]},
          action |-> "like"]
    ELSE [likes |-> table, action |-> "IntegrityError"]

\* app_jinja.toggle_like, lines 215-220: the session check and the reads
\* (current user, post, existing like)
ToggleLikeRead(c, post_id) ==
    /\ req[c].pc = "idle"
    /\ LET uid == session[c]
           current_user == GetCurrentUser(uid)
           done(res) == /\ out' \in Dispatch(c, "toggle_like", post_id, "GET",
                                      LogUserAction("toggle_like", uid, res))
                        /\ UNCHANGED req
       IN  IF uid = 0 THEN done(Redirect("login", "", <<>>))
           ELSE IF ~ Has(posts, post_id) THEN done(Raise("NotFound", "", <<>>))
           ELSE IF current_user = 0 THEN done(Raise("AttributeError", "", <<>>))
           ELSE /\ req' = [req EXCEPT ![c] =
                              [pc |-> "toggle_like", user_id |-> current_user,
                               post_id |-> post_id,
                               existing_like |-> ExistingLike(likes, current_user, post_id)]]
                /\ out' = NoResponse(c, "toggle_like", post_id, "Pending")
    /\ UNCHANGED <<db, session>>

\* app_jinja.toggle_like, lines 222-233: the delete or the insert, the commit,
\* the audit record and the redirect
ToggleLikeWrite(c) ==
    /\ req[c].pc = "toggle_like"
    /\ LET r == req[c]
           w == ToggleLikeCommit(likes, r.user_id, r.post_id, r.existing_like)
       IN  /\ \A l \in w.likes : l.id <= MaxLikes
           /\ likes' = w.likes
           /\ out' \in Dispatch(c, "toggle_like", r.post_id, "GET",
                         LogUserAction("toggle_like", r.user_id,
                             IF w.action = "IntegrityError"
                             THEN Raise("IntegrityError", "", <<>>)
                             ELSE Redirect("home", "",
                                           LogLikeAction(r.post_id, r.user_id, w.action))))
    /\ req' = [req EXCEPT ![c] = Idle]
    /\ UNCHANGED <<users, posts, comments, followers, session>>

----------------------------------------------------------------------------
(* The mutating routes when db.session.commit() raises: the store refuses    *)
(* the write (sqlite3 OperationalError: database is locked, disk I/O error). *)
(* Nothing is written; the exception leaves the view through its wrapper.    *)

OperationalError == "OperationalError"

\* app_jinja.register, lines 113-117
RegisterCommitFails(c, username, password) ==
    /\ req[c].pc = "idle"
    /\ UserByName(username) = {}
    /\ out' \in Dispatch(c, "register", 0, "POST",
                  LogExecutionTime("user_registration", Raise(OperationalError, "", <<>>)))
    /\ UNCHANGED <<db, session, req>>

\* app_jinja.create_post, lines 264-268
CreatePostCommitFails(c, caption) ==
    /\ req[c].pc = "idle"
    /\ session[c] # 0 /\ HasText(caption) /\ GetCurrentUser(session[c]) # 0
    /\ out' \in Dispatch(c, "create_post", 0, "POST",
                  LogUserAction("create_post", session[c],
                                Raise(OperationalError, "", <<>>)))
    /\ UNCHANGED <<db, session, req>>

\* app_jinja.add_comment, lines 245-248
AddCommentCommitFails(c, post_id, text) ==
    /\ req[c].pc = "idle"
    /\ session[c] # 0 /\ Has(posts, post_id) /\ HasText(text)
    /\ GetCurrentUser(session[c]) # 0
    /\ out' \in Dispatch(c, "add_comment", post_id, "POST",
                  LogUserAction("add_comment", session[c],
                                Raise(OperationalError, "", <<>>)))
    /\ UNCHANGED <<db, session, req>>

\* app_jinja.edit_post, lines 284-287
EditPostCommitFails(c, post_id, caption) ==
    /\ req[c].pc = "idle"
    /\ PostOwnerRequired(session[c], post_id, "edit_post").pass /\ HasText(caption)
    /\ out' \in Dispatch(c, "edit_post", post_id, "POST",
                  LogUserAction("edit_post", session[c],
                                Raise(OperationalError, "", <<>>)))
    /\ UNCHANGED <<db, session, req>>

\* app_jinja.delete_post, lines 302-311: log_post_deletion is called before
\* db.session.delete(post) and the commit
DeletePostCommitFails(c, post_id) ==
    /\ req[c].pc = "idle"
    /\ PostOwnerRequired(session[c], post_id, "delete_post").pass
    /\ out' \in Dispatch(c, "delete_post", post_id, "POST",
                  LogUserAction("delete_post", session[c],
                      Raise(OperationalError, "",
                            LogPostDeletion(post_id, session[c],
                                            Cardinality(LikesOfPosts({post_id})),
                                            Cardinality(CommentsOfPosts({post_id}))))))
    /\ UNCHANGED <<db, session, req>>

\* app_jinja.edit_comment, lines 323-326
EditCommentCommitFails(c, comment_id, text) ==
    /\ req[c].pc = "idle"
    /\ CommentOwnerRequired(session[c], comment_id, "edit_comment").pass /\ HasText(text)
    /\ out' \in Dispatch(c, "edit_comment", comment_id, "POST",
                  LogUserAction("edit_comment", session[c],
                                Raise(OperationalError, "", <<>>)))
    /\ UNCHANGED <<db, session, req>>

\* app_jinja.delete_comment, lines 341-347: log_comment_deletion is called
\* before db.session.delete(comment) and the commit
DeleteCommentCommitFails(c, comment_id) ==
    /\ req[c].pc = "idle"
    /\ CommentOwnerRequired(session[c], comment_id, "delete_comment").pass
    /\ out' \in Dispatch(c, "delete_comment", comment_id, "POST",
                  LogUserAction("delete_comment", session[c],
                      Raise(OperationalError, "",
                            LogCommentDeletion(comment_id,
                                               Get(comments, comment_id).post_id,
                                               session[c]))))
    /\ UNCHANGED <<db, session, req>>

\* app_jinja.follow_user, lines 188-189
FollowUserCommitFails(c, user_id) ==
    /\ req[c].pc = "idle"
    /\ session[c] # 0 /\ Has(users, user_id)
    /\ GetCurrentUser(session[c]) \notin {0, user_id}
    /\ out' \in Dispatch(c, "follow_user", user_id, "GET",
                  LogUserAction("follow_user", session[c],
                                Raise(OperationalError, "", <<>>)))
    /\ UNCHANGED <<db, session, req>>

\* app_jinja.unfollow_user, lines 204-205
UnfollowUserCommitFails(c, user_id) ==
    /\ req[c].pc = "idle"
    /\ session[c] # 0 /\ Has(users, user_id) /\ GetCurrentUser(session[c]) # 0
    /\ out' \in Dispatch(c, "unfollow_user", user_id, "GET",
                  LogUserAction("unfollow_user", session[c],
                                Raise(OperationalError, "", <<>>)))
    /\ UNCHANGED <<db, session, req>>

\* app_jinja.toggle_like, lines 222-229: the commit of the delete or of the
\* insert raises
ToggleLikeCommitFails(c) ==
    /\ req[c].pc = "toggle_like"
    /\ out' \in Dispatch(c, "toggle_like", req[c].post_id, "GET",
                  LogUserAction("toggle_like", req[c].user_id,
                                Raise(OperationalError, "", <<>>)))
    /\ req' = [req EXCEPT ![c] = Idle]
    /\ UNCHANGED <<db, session>>

----------------------------------------------------------------------------
(* The model used directly (models.py), as the tests and seed_data.py do *)

\* user.follow(other); db.session.commit()
UserFollow(uid, vid) ==
    /\ Has(users, uid) /\ Has(users, vid)
    /\ followers' = UserFollowEdges(uid, vid)
    /\ out' = NoResponse("", "User.follow", uid, "Ok")
    /\ UNCHANGED <<users, posts, comments, likes, session, req>>

\* db.session.delete(user); db.session.commit()
UserDelete(uid) ==
    /\ Has(users, uid)
    /\ LET gone == UserCascade(uid)
       IN  /\ users' = {u \in users : u.id # uid}
           /\ posts' = posts \ gone.posts
           /\ likes' = likes \ gone.likes
           /\ comments' = comments \ gone.comments
           /\ followers' = {e \in followers : e[1] # uid /\ e[2] # uid}
    /\ out' = [NoResponse("", "User.delete", uid, "Ok") EXCEPT !.deleted = UserCascade(uid)]
    /\ UNCHANGED <<session, req>>

\* db.session.delete(post); db.session.commit()
PostDelete(post_id) ==
    /\ Has(posts, post_id)
    /\ LET gone == PostCascade(post_id)
       IN  /\ posts' = posts \ gone.posts
           /\ likes' = likes \ gone.likes
           /\ comments' = comments \ gone.comments
    /\ out' = [NoResponse("", "Post.delete", post_id, "Ok")
                EXCEPT !.deleted = PostCascade(post_id)]
    /\ UNCHANGED <<users, followers, session, req>>

----------------------------------------------------------------------------
(* Masking of the security and audit channels (logging_config.py).  A key is *)
(* the sequence of its characters.  A payload is a scalar, a list or a map;   *)
(* the items of a map are <<key, value>> pairs in insertion order, those of  *)
(* a list are values under the empty key.                                    *)

\* str.lower on one character
Lower(ch) ==
    CASE ch = "A" -> "a" [] ch = "B" -> "b" [] ch = "C" -> "c" [] ch = "D" -> "d"
      [] ch = "E" -> "e" [] ch = "F" -> "f" [] ch = "G" -> "g" [] ch = "H" -> "h"
      [] ch = "I" -> "i" [] ch = "J" -> "j" [] ch = "K" -> "k" [] ch = "L" -> "l"
      [] ch = "M" -> "m" [] ch = "N" -> "n" [] ch = "O" -> "o" [] ch = "P" -> "p"
      [] ch = "Q" -> "q" [] ch = "R" -> "r" [] ch = "S" -> "s" [] ch = "T" -> "t"
      [] ch = "U" -> "u" [] ch = "V" -> "v" [] ch = "W" -> "w" [] ch = "X" -> "x"
      [] ch = "Y" -> "y" [] ch = "Z" -> "z" [] OTHER -> ch

\* key.lower()
LowerKey(key) == [i \in DOMAIN key |-> Lower(key[i])]

\* `t in s` for strings
Contains(t, s) == \E i \in 0..(Len(s) - Len(t)) : SubSeq(s, i + 1, i + Len(t)) = t

\* SecurityFormatter.SENSITIVE_FIELDS
SENSITIVE_FIELDS ==
    { <<"p","a","s","s","w","o","r","d">>,
      <<"p","a","s","s","w","o","r","d","_","h","a","s","h">>,
      <<"t","o","k","e","n">>,
      <<"s","e","c","r","e","t">>,
      <<"k","e","y">>,
      <<"a","u","t","h","o","r","i","z","a","t","i","o","n">>,
      <<"c","o","o","k","i","e">>,
      <<"s","e","s","s","i","o","n">>,
      <<"c","s","r","f","_","t","o","k","e","n">>,
      <<"a","p","i","_","k","e","y">>,
      <<"a","c","c","e","s","s","_","t","o","k","e","n">> }

\* any(sensitive in key.lower() for sensitive in self.SENSITIVE_FIELDS)
IsSensitive(key) == \E t \in SENSITIVE_FIELDS : Contains(t, LowerKey(key))

MASKED == "***MASKED***"

Scalar(v) == [kind |-> "scalar", val |-> v, items |-> <<>>]
ListOf(items) == [kind |-> "list", val |-> "", items |-> items]
MapOf(items) == [kind |-> "map", val |-> "", items |-> items]
NoKey == <<>>

\* keys and values the payloads are built from: id, ke, token, myKEY
PayloadKeys ==
    { <<"i","d">>, <<"k","e">>, <<"t","o","k","e","n">>, <<"m","y","K","E","Y">> }
PayloadValues == {"v", MASKED}

\* mutant: lists are not descended into
RECURSIVE M_MaskSkipsLists(_)
M_MaskSkipsLists(data) ==
    IF data.kind = "map"
    THEN [data EXCEPT !.items =
             [i \in DOMAIN data.items |->
                 IF IsSensitive(data.items[i][1])
                 THEN <<data.items[i][1], Scalar(MASKED)>>
                 ELSE <<data.items[i][1], M_MaskSkipsLists(data.items[i][2])>>]]
    ELSE data

\* mutant: only the keys of the outermost map are looked at
M_MaskTopLevel(data) ==
    IF data.kind = "map"
    THEN [data EXCEPT !.items =
             [i \in DOMAIN data.items |->
                 IF IsSensitive(data.items[i][1])
                 THEN <<data.items[i][1], Scalar(MASKED)>>
                 ELSE data.items[i]]]
    ELSE data

\* SecurityFormatter._mask_sensitive_data: the payload after the call
RECURSIVE MaskSensitiveData(_)
MaskSensitiveData(data) ==
    IF data.kind = "map"
    THEN [data EXCEPT !.items =
             [i \in DOMAIN data.items |->
                 IF IsSensitive(data.items[i][1])
                 THEN <<data.items[i][1], Scalar(MASKED)>>
                 ELSE <<data.items[i][1], MaskSensitiveData(data.items[i][2])>>]]
    ELSE IF data.kind = "list"
    THEN [data EXCEPT !.items =
             [i \in DOMAIN data.items |-> <<NoKey, MaskSensitiveData(data.items[i][2])>>]]
    ELSE data

\* containers nested in a payload
RECURSIVE Depth(_)
Depth(data) ==
    IF data.kind = "scalar" THEN 0
    ELSE 1 + Max({0} \cup {Depth(data.items[i][2]) : i \in DOMAIN data.items})

\* a record handed to the security logger with `extra` = data, not yet
\* formatted, and the same record once the handler has formatted it
Emitted(data) ==
    [NoResponse("", "SecurityFormatter", 0, "Emitted")
       EXCEPT !.log = <<Rec("security", "WARNING", "security_event", data)>>]
Formatted(data) ==
    [NoResponse("", "SecurityFormatter", 0, "Formatted")
       EXCEPT !.log = <<Rec("security", "WARNING", "security_event", data)>>]
Payload == out.log[1].fields

\* the caller builds the payload: wraps it in a map under key k
NestInMap(k) ==
    /\ out.signal = "Emitted" /\ Depth(Payload) < MaxDepth
    /\ out' = Emitted(MapOf(<< <<k, Payload>> >>))
    /\ UNCHANGED <<db, session, req>>

\* ... wraps it in a list
NestInList ==
    /\ out.signal = "Emitted" /\ Depth(Payload) < MaxDepth
    /\ out' = Emitted(ListOf(<< <<NoKey, Payload>> >>))
    /\ UNCHANGED <<db, session, req>>

\* ... sets one more key of the map to a scalar
AddItem(k, v) ==
    /\ out.signal = "Emitted" /\ Payload.kind = "map"
    /\ Len(Payload.items) < MaxWidth
    /\ \A i \in DOMAIN Payload.items : Payload.items[i][1] # k
    /\ out' = Emitted(MapOf(Append(Payload.items, <<k, Scalar(v)>>)))
    /\ UNCHANGED <<db, session, req>>

\* ... appends a scalar to the list
AddElement(v) ==
    /\ out.signal = "Emitted" /\ Payload.kind = "list"
    /\ Len(Payload.items) < MaxWidth
    /\ out' = Emitted(ListOf(Append(Payload.items, <<NoKey, Scalar(v)>>)))
    /\ UNCHANGED <<db, session, req>>

\* SecurityFormatter.format: the entry goes through JSON (maps, lists and
\* strings come back as they were) and is masked; formatting a formatted
\* entry again masks it again
SecurityFormat ==
    /\ out.signal \in {"Emitted", "Formatted"}
    /\ out' = Formatted(MaskSensitiveData(Payload))
    /\ UNCHANGED <<db, session, req>>

----------------------------------------------------------------------------
(* The application *)

Init ==
    /\ users = {} /\ posts = {} /\ comments = {} /\ likes = {} /\ followers = {}
    /\ session = [c \in Clients |-> 0]
    /\ req = [c \in Clients |-> Idle]
    /\ out = NoResponse("", "init", 0, "Ok")

Next ==
    \/ \E c \in Clients, m \in Methods, u \in Field(Usernames \cup {""}),
          p \in Field(Passwords) : Login(c, m, u, p)
    \/ \E c \in Clients, m \in Methods, u \in Field(Usernames \cup {""}),
          p \in Field(Passwords), q \in Field(Passwords) : Register(c, m, u, p, q)
    \/ \E c \in Clients : Logout(c)
    \/ \E c \in Clients : Index(c)
    \/ \E c \in Clients : Home(c)
    \/ \E c \in Clients, t \in Field(RawTexts) : CreatePost(c, t)
    \/ \E c \in Clients, p \in PostIds, t \in Field(RawTexts) : AddComment(c, p, t)
    \/ \E c \in Clients, p \in PostIds, m \in Methods, t \in Field(RawTexts) :
          EditPost(c, p, m, t)
    \/ \E c \in Clients, p \in PostIds : DeletePost(c, p)
    \/ \E c \in Clients, k \in CommentIds, m \in Methods, t \in Field(RawTexts) :
          EditComment(c, k, m, t)
    \/ \E c \in Clients, k \in CommentIds : DeleteComment(c, k)
    \/ \E c \in Clients, u \in UserIds : FollowUser(c, u)
    \/ \E c \in Clients, u \in UserIds : UnfollowUser(c, u)
    \/ \E c \in Clients, p \in PostIds : ToggleLikeRead(c, p)
    \/ \E c \in Clients : ToggleLikeWrite(c)
    \/ \E c \in Clients, u \in Usernames, p \in Passwords : RegisterRead(c, u, p)
    \/ \E c \in Clients : RegisterWrite(c)
    \/ \E c \in Clients, u \in UserIds : FollowUserRead(c, u)
    \/ \E c \in Clients : FollowUserWrite(c)
    \/ \E c \in Clients, u \in Usernames, p \in Passwords : RegisterCommitFails(c, u, p)
    \/ \E c \in Clients, t \in Field(RawTexts) : CreatePostCommitFails(c, t)
    \/ \E c \in Clients, p \in PostIds, t \in Field(RawTexts) :
          AddCommentCommitFails(c, p, t)
    \/ \E c \in Clients, p \in PostIds, t \in Field(RawTexts) :
          EditPostCommitFails(c, p, t)
    \/ \E c \in Clients, p \in PostIds : DeletePostCommitFails(c, p)
    \/ \E c \in Clients, k \in CommentIds, t \in Field(RawTexts) :
          EditCommentCommitFails(c, k, t)
    \/ \E c \in Clients, k \in CommentIds : DeleteCommentCommitFails(c, k)
    \/ \E c \in Clients, u \in UserIds : FollowUserCommitFails(c, u)
    \/ \E c \in Clients, u \in UserIds : UnfollowUserCommitFails(c, u)
    \/ \E c \in Clients : ToggleLikeCommitFails(c)
    \/ \E u \in UserIds, v \in UserIds : UserFollow(u, v)
    \/ \E u \in UserIds : UserDelete(u)
    \/ \E p \in PostIds : PostDelete(p)

Spec == Init /\ [][Next]_vars

----------------------------------------------------------------------------
(* The application restricted to the routes that read or write the tables a *)
(* property is about.  The routes left out of a restriction leave those     *)
(* tables and the session unchanged.                                        *)

\* registration and login with a well-formed form
SignUp(C) ==
    \/ \E c \in C, u \in Usernames : Register(c, "POST", <<u>>, <<"pw1">>, <<"pw1">>)
    \/ \E c \in C, u \in Usernames : Login(c, "POST", <<u>>, <<"pw1">>)

\* posts and comments behind the ownership gate, one client
NextGate ==
    \/ SignUp(OneClient)
    \/ \E c \in OneClient : Logout(c)
    \/ \E c \in OneClient, t \in NewTexts : CreatePost(c, t)
    \/ \E c \in OneClient, p \in PostIds, t \in NewTexts : AddComment(c, p, t)
    \/ \E c \in OneClient, p \in PostIds, m \in Methods, t \in EditTexts :
          EditPost(c, p, m, t)
    \/ \E c \in OneClient, p \in PostIds : DeletePost(c, p)
    \/ \E c \in OneClient, k \in CommentIds, m \in Methods, t \in EditTexts :
          EditComment(c, k, m, t)
    \/ \E c \in OneClient, k \in CommentIds : DeleteComment(c, k)
    \/ \E u \in UserIds : UserDelete(u)

SpecGate == Init /\ [][NextGate]_vars

\* likes, two clients whose toggle_like requests interleave
NextLike ==
    \/ SignUp(Clients)
    \/ \E c \in Clients : CreatePost(c, <<<<"a">>>>)
    \/ \E c \in Clients, p \in PostIds : ToggleLikeRead(c, p)
    \/ \E c \in Clients : ToggleLikeWrite(c)
    \/ \E c \in Clients, p \in PostIds : DeletePost(c, p)

SpecLike == Init /\ [][NextLike]_vars

\* the follow relation
NextFollow ==
    \/ SignUp(Clients)
    \/ \E c \in Clients : Logout(c)
    \/ \E c \in Clients, u \in UserIds : FollowUser(c, u)
    \/ \E c \in Clients, u \in UserIds : UnfollowUser(c, u)
    \/ \E u \in UserIds, v \in UserIds : UserFollow(u, v)
    \/ \E u \in UserIds : UserDelete(u)

SpecFollow == Init /\ [][NextFollow]_vars

\* posts, comments and likes together, with well-formed forms
NextContent ==
    \/ SignUp(OneClient)
    \/ \E c \in OneClient : CreatePost(c, <<<<"a">>>>)
    \/ \E c \in OneClient, p \in PostIds : AddComment(c, p, <<<<"a">>>>)
    \/ \E c \in OneClient, p \in PostIds : ToggleLikeRead(c, p)
    \/ \E c \in OneClient : ToggleLikeWrite(c)
    \/ \E c \in OneClient, p \in PostIds : EditPost(c, p, "POST", <<<<SP, "b", SP>>>>)
    \/ \E c \in OneClient, p \in PostIds : DeletePost(c, p)
    \/ \E c \in OneClient, k \in CommentIds :
          EditComment(c, k, "POST", <<<<SP, "b", SP>>>>)
    \/ \E c \in OneClient, k \in CommentIds : DeleteComment(c, k)

SpecContent == Init /\ [][NextContent]_vars

\* cascading deletes
NextCascade ==
    \/ SignUp(OneClient)
    \/ \E c \in OneClient : CreatePost(c, <<<<"a">>>>)
    \/ \E c \in OneClient, p \in PostIds : AddComment(c, p, <<<<"a">>>>)
    \/ \E c \in OneClient, p \in PostIds : ToggleLikeRead(c, p)
    \/ \E c \in OneClient : ToggleLikeWrite(c)
    \/ \E c \in OneClient, p \in PostIds : DeletePost(c, p)
    \/ \E p \in PostIds : PostDelete(p)
    \/ \E u \in UserIds : UserDelete(u)

SpecCascade == Init /\ [][NextCascade]_vars

\* login, registration and logout with every form
NextAuth ==
    \/ \E c \in Clients, m \in Methods, u \in Field(Usernames \cup {""}),
          p \in Field(Passwords \cup {""}) : Login(c, m, u, p)
    \/ \E c \in Clients, m \in Methods, u \in Field(Usernames \cup {""}),
          p \in Field(Passwords), q \in Field(Passwords) : Register(c, m, u, p, q)
    \/ \E c \in Clients : Logout(c)
    \/ \E u \in UserIds : UserDelete(u)

SpecAuth == Init /\ [][NextAuth]_vars

\* sessions with and without a user, one client, with users that come and go
NextAccess ==
    \/ SignUp(OneClient)
    \/ \E c \in OneClient : Logout(c)
    \/ \E c \in OneClient : Index(c)
    \/ \E c \in OneClient : Home(c)
    \/ \E c \in OneClient : CreatePost(c, <<<<"a">>>>)
    \/ \E c \in OneClient, p \in PostIds : AddComment(c, p, <<<<"a">>>>)
    \/ \E c \in OneClient, p \in PostIds : DeletePost(c, p)
    \/ \E c \in OneClient, k \in CommentIds : DeleteComment(c, k)
    \/ \E c \in OneClient, u \in UserIds : FollowUser(c, u)
    \/ \E c \in OneClient, u \in UserIds : UnfollowUser(c, u)
    \/ \E u \in UserIds : UserDelete(u)

SpecAccess == Init /\ [][NextAccess]_vars

\* the security formatter on payloads of every shape
InitMask ==
    /\ users = {} /\ posts = {} /\ comments = {} /\ likes = {} /\ followers = {}
    /\ session = [c \in Clients |-> 0]
    /\ req = [c \in Clients |-> Idle]
    /\ \E d \in {Scalar(v) : v \in PayloadValues} \cup {MapOf(<<>>), ListOf(<<>>)} :
          out = Emitted(d)

NextMask ==
    \/ \E k \in PayloadKeys : NestInMap(k)
    \/ NestInList
    \/ \E k \in PayloadKeys, v \in PayloadValues : AddItem(k, v)
    \/ \E v \in PayloadValues : AddElement(v)
    \/ SecurityFormat

SpecMask == InitMask /\ [][NextMask]_vars

\* one session under login, registration and logout alone
NextSession ==
    \/ \E c \in OneClient, m \in Methods, u \in Field(Usernames \cup {""}),
          p \in Field(Passwords \cup {""}) : Login(c, m, u, p)
    \/ \E c \in OneClient, m \in Methods, u \in Field(Usernames \cup {""}),
          p \in Field(Passwords), q \in Field(Passwords) : Register(c, m, u, p, q)
    \/ \E c \in OneClient : Logout(c)

SpecSession == Init /\ [][NextSession]_vars

\* every mutating route, with commits that succeed and commits that fail
NextCommit ==
    \/ SignUp(OneClient)
    \/ \E c \in OneClient : CreatePost(c, <<<<"a">>>>)
    \/ \E c \in OneClient, p \in PostIds : AddComment(c, p, <<<<"a">>>>)
    \/ \E c \in OneClient, p \in PostIds : ToggleLikeRead(c, p)
    \/ \E c \in OneClient : ToggleLikeWrite(c)
    \/ \E c \in OneClient, p \in PostIds : DeletePost(c, p)
    \/ \E c \in OneClient, k \in CommentIds : DeleteComment(c, k)
    \/ \E c \in OneClient, u \in Usernames : RegisterCommitFails(c, u, "pw1")
    \/ \E c \in OneClient : CreatePostCommitFails(c, <<<<"a">>>>)
    \/ \E c \in OneClient, p \in PostIds : AddCommentCommitFails(c, p, <<<<"a">>>>)
    \/ \E c \in OneClient, p \in PostIds : EditPostCommitFails(c, p, <<<<"b">>>>)
    \/ \E c \in OneClient, p \in PostIds : DeletePostCommitFails(c, p)
    \/ \E c \in OneClient, k \in CommentIds : EditCommentCommitFails(c, k, <<<<"b">>>>)
    \/ \E c \in OneClient, k \in CommentIds : DeleteCommentCommitFails(c, k)
    \/ \E c \in OneClient, u \in UserIds : FollowUserCommitFails(c, u)
    \/ \E c \in OneClient, u \in UserIds : UnfollowUserCommitFails(c, u)
    \/ \E c \in OneClient : ToggleLikeCommitFails(c)

SpecCommit == Init /\ [][NextCommit]_vars

\* forms of every shape for one user: registration with any field absent,
\* empty or mismatched; text routes with the text absent, empty, blank or
\* present
FormTexts(text) == {<<>>, <<<<>>>>, <<<<SP>>>>, <<text>>}
FormNames == Field({"alice", ""})
FormPasswords == Field({"pw1", ""})
FormConfirms == Field({"pw1", "pw2"})

NextValidation ==
    \/ \E c \in OneClient, u \in FormNames, p \in FormPasswords, q \in FormConfirms :
          Register(c, "POST", u, p, q)
    \/ \E c \in OneClient : Login(c, "POST", <<"alice">>, <<"pw1">>)
    \/ \E c \in OneClient : Logout(c)
    \/ \E c \in OneClient, t \in FormTexts(<<"a">>) : CreatePost(c, t)
    \/ \E c \in OneClient, p \in PostIds, t \in FormTexts(<<"a">>) : AddComment(c, p, t)
    \/ \E c \in OneClient, p \in PostIds, t \in FormTexts(<<SP, "b", SP>>) :
          EditPost(c, p, "POST", t)
    \/ \E c \in OneClient, k \in CommentIds, t \in FormTexts(<<SP, "b", SP>>) :
          EditComment(c, k, "POST", t)

SpecValidation == Init /\ [][NextValidation]_vars

\* the follow relation under two clients whose follow requests interleave
NextFollowRace ==
    \/ SignUp(Clients)
    \/ \E c \in Clients, u \in UserIds : FollowUserRead(c, u)
    \/ \E c \in Clients : FollowUserWrite(c)
    \/ \E c \in Clients, u \in UserIds : FollowUser(c, u)
    \/ \E c \in Clients, u \in UserIds : UnfollowUser(c, u)

SpecFollowRace == Init /\ [][NextFollowRace]_vars

\* registration under two clients whose requests interleave
NextRegisterRace ==
    \/ SignUp(Clients)
    \/ \E c \in Clients : Logout(c)
    \/ \E c \in Clients, u \in Usernames, p \in Passwords : RegisterRead(c, u, p)
    \/ \E c \in Clients : RegisterWrite(c)

SpecRegisterRace == Init /\ [][NextRegisterRace]_vars

----------------------------------------------------------------------------
(* Properties *)

OwnerRoutes == {"edit_post", "delete_post", "edit_comment", "delete_comment"}
PostRoutes == {"edit_post", "delete_post"}

\* the table an owner-controlled route loads its target from
TargetTable(route) == IF route \in PostRoutes THEN posts ELSE comments

\* the step just taken is a request to an owner-controlled route made by an
\* authenticated user on an existing target; NonOwner: the target is another's
OwnerRequest == out'.route \in OwnerRoutes
                /\ GetCurrentUser(session[out'.client]) # 0
                /\ Has(TargetTable(out'.route), out'.arg)
Requester == GetCurrentUser(session[out'.client])
TargetOwner == Get(TargetTable(out'.route), out'.arg).user_id
NonOwnerRequest == OwnerRequest /\ TargetOwner # Requester

SecurityRecords(log) == SelectSeq(log, LAMBDA r : r.channel = "security")
AuditRecords(log) == SelectSeq(log, LAMBDA r : r.channel = "audit")

C2_NonOwnerFrame ==
    [][NonOwnerRequest =>
          posts' = posts /\ comments' = comments /\ likes' = likes]_vars

\* a non-owner's delete_post was refused on a post that has a like and a comment
C2_Witness ==
    /\ out.route = "delete_post" /\ out.signal = "Forbidden"
    /\ LikesOfPosts({out.arg}) # {} /\ CommentsOfPosts({out.arg}) # {}
    /\ Has(posts, out.arg)

\* C3: the caller receives 403 on an ownership violation and 404 when the
\* post, comment or user referred to does not exist.
C3_StatusAsIs ==
    out.signal \in {"Forbidden", "NotFound"} => out.status = ExceptionCode(out.signal)

C5_Irreflexive == \A e \in followers : e[1] # e[2]

\* the rows of a like table for one (user, post) pair
PairLikes(table, uid, pid) == {l \in table : l.user_id = uid /\ l.post_id = pid}

\* the step just taken is the write half of client c's toggle_like
ToggleWriteStep(c) == req[c].pc = "toggle_like" /\ req'[c].pc = "idle"

\* C6: in every reachable state no two Like rows share (user, post); and when
\* a toggle_like that read 'no like' comes to its insert after another request
\* has inserted the pair, the insert is rejected (IntegrityError), the like
\* table is unchanged and exactly one row for the pair results.
C6_LikeUnique ==
    /\ [](\A l1 \in likes, l2 \in likes :
             (l1.user_id = l2.user_id /\ l1.post_id = l2.post_id) => l1 = l2)
    /\ [][\A c \in Clients :
             (/\ ToggleWriteStep(c)
              /\ req[c].existing_like = 0
              /\ PairLikes(likes, req[c].user_id, req[c].post_id) # {})
             => /\ out'.signal = "IntegrityError"
                /\ likes' = likes
                /\ Cardinality(PairLikes(likes', req[c].user_id, req[c].post_id)) = 1]_vars

\* the second of two racing toggle_like requests was rejected
C6_Witness ==
    /\ out.route = "toggle_like" /\ out.signal = "IntegrityError"
    /\ \E l \in likes : l.post_id = out.arg
                        /\ Cardinality(PairLikes(likes, l.user_id, out.arg)) = 1

\* the set of (user, post) pairs that are liked
LikedPairs(table) == {<<l.user_id, l.post_id>> : l \in table}

\* toggle_like run to completion on a like table: the read, then the write
ToggleOnce(table, uid, pid) ==
    ToggleLikeCommit(table, uid, pid, ExistingLike(table, uid, pid)).likes

\* C7: a toggle_like whose read is still current when it writes (no other
\* request changed the pair in between) on an existing post creates the like
\* when it is absent and removes it when it is present, and leaves the likes
\* of every other pair as they were; two toggles one after the other restore
\* the liked pairs.
C7_Toggle ==
    /\ [][\A c \in Clients :
             (/\ ToggleWriteStep(c)
              /\ Has(posts, req[c].post_id)
              /\ req[c].existing_like = ExistingLike(likes, req[c].user_id, req[c].post_id))
             => LET u == req[c].user_id
                    p == req[c].post_id
                IN  /\ PairLikes(likes, u, p) = {}
                         => Cardinality(PairLikes(likes', u, p)) = 1
                    /\ PairLikes(likes, u, p) # {} => PairLikes(likes', u, p) = {}
                    /\ likes' \ PairLikes(likes', u, p) = likes \ PairLikes(likes, u, p)]_vars
    /\ [](\A u \in Ids(users), p \in Ids(posts) :
             LikedPairs(ToggleOnce(ToggleOnce(likes, u, p), u, p)) = LikedPairs(likes))

\* a toggle removed a like while a like of another pair stayed
C7_Witness ==
    /\ out.route = "toggle_like" /\ out.signal = "Ok"
    /\ \E i \in 1..Len(out.log) : out.log[i].event = "unlike"
    /\ likes # {}
    /\ \A l \in likes : l.post_id # out.arg

\* C8: after db.session.delete(user) no post, like or comment references the
\* deleted user, and no like or comment is left on the posts deleted with it.
C8_UserCascade ==
    [][out'.route = "User.delete" =>
          LET u == out'.arg
              P == Ids({p \in posts : p.user_id = u})
          IN  /\ \A p \in posts' : p.user_id # u
              /\ \A l \in likes' : l.user_id # u /\ l.post_id \notin P
              /\ \A k \in comments' : k.user_id # u /\ k.post_id \notin P]_vars

\* a user was deleted whose post carried another user's like and comment
C8_Witness ==
    /\ out.route = "User.delete"
    /\ out.deleted.posts # {}
    /\ \E l \in out.deleted.likes : l.user_id # out.arg
    /\ \E k \in out.deleted.comments : k.user_id # out.arg
    /\ users # {}

\* C9: db.session.delete(post), directly or in the owner's delete_post
\* request, removes every like and comment of the post, whoever wrote it, and
\* nothing of any other post.
C9_PostCascade ==
    [][(\/ out'.route = "Post.delete"
        \/ (out'.route = "delete_post" /\ OwnerRequest /\ TargetOwner = Requester))
       => /\ likes' = {l \in likes : l.post_id # out'.arg}
          /\ comments' = {k \in comments : k.post_id # out'.arg}
          /\ ~ Has(posts', out'.arg)]_vars

\* the owner's delete_post took another user's like and a comment with the
\* post and left the like of another post
C9_Witness ==
    /\ out.route = "delete_post" /\ out.signal = "Ok"
    /\ \E p \in out.deleted.posts, l \in out.deleted.likes : l.user_id # p.user_id
    /\ out.deleted.comments # {}
    /\ likes # {}

\* the login form has no username or no password
MissingCredentials(username, password) == ~ Truthy(username) \/ ~ Truthy(password)

\* no stored user has this username and this password
NoMatch(username, password) ==
    /\ Truthy(username) /\ Truthy(password)
    /\ ~ \E u \in users : /\ u.username = username[1]
                          /\ CheckPasswordHash(u.password_hash, password[1])

\* what a failed login leaves behind: the session as it was, the message, one
\* security record failed_login with the reason, no audit record login
FailedLogin(c, message, reason) ==
    LET sec == SecurityRecords(out'.log)
        aud == AuditRecords(out'.log)
    IN  /\ session'[c] = session[c]
        /\ out'.flash = message
        /\ out'.status = 200
        /\ Len(sec) = 1
        /\ sec[1].event = "failed_login"
        /\ sec[1].fields.additional_data.failure_reason = reason
        /\ \A i \in 1..Len(aud) : aud[i].event # "login"

\* C10: a POST to login without username or password, or with a pair that
\* matches no stored user, leaves the session without a new user id, shows the
\* failure message and emits exactly one security record failed_login with the
\* reason missing_credentials, respectively invalid_credentials, and no audit
\* record login.
C10_FailedLogin ==
    [][(out'.route = "login" /\ out'.method = "POST") =>
          \A c \in {out'.client}, u \in Field(Usernames \cup {""}),
             p \in Field(Passwords \cup {""}) :
             Login(c, "POST", u, p)
             => /\ MissingCredentials(u, p)
                     => FailedLogin(c, "Username and password required",
                                    "missing_credentials")
                /\ NoMatch(u, p)
                     => FailedLogin(c, "Invalid credentials", "invalid_credentials")]_vars

\* a wrong password for a stored username was refused, no session established
C10_Witness ==
    /\ out.route = "login" /\ out.flash = "Invalid credentials"
    /\ session[out.client] = 0
    /\ \E u \in users, i \in 1..Len(out.log) :
          /\ out.log[i].event = "failed_login"
          /\ out.log[i].fields.additional_data.username = u.username

\* what the client of a login POST can observe: the message, the status, the
\* redirect, the reason codes of the security records, the session afterwards
LoginOutcome(uid, username, password) ==
    LET v == LoginView(uid, "POST", username, password)
        sec == SecurityRecords(v.res.log)
    IN  [flash |-> v.res.flash, status |-> v.res.status, location |-> v.res.location,
         reasons |-> [i \in 1..Len(sec) |-> sec[i].fields.additional_data.failure_reason],
         audit |-> Len(AuditRecords(v.res.log)),
         session |-> v.uid]

\* C11: for non-empty usernames and passwords, a login that fails because the
\* username is unknown and a login that fails because the password is wrong
\* have the same outcome: message, status, reason code, effect on the session.
C11_NoEnumeration ==
    \A c \in Clients, u1 \in Usernames, u2 \in Usernames, p1 \in Passwords, p2 \in Passwords :
        (/\ UserByName(u1) = {}
         /\ UserByName(u2) # {}
         /\ NoMatch(<<u2>>, <<p2>>))
        => LoginOutcome(session[c], <<u1>>, <<p1>>) = LoginOutcome(session[c], <<u2>>, <<p2>>)

\* a login was refused while one username is stored and the other is not
C11_Witness ==
    /\ out.route = "login" /\ out.flash = "Invalid credentials"
    /\ \E u1 \in Usernames, u2 \in Usernames : UserByName(u1) = {} /\ UserByName(u2) # {}

\* the strings a log record carries
Texts(r) ==
    CASE r.event = "request_start" -> {r.fields.method, r.fields.url}
      [] r.event = "request_end" -> {}
      [] r.event = "failed_login" ->
            {r.fields.additional_data.username, r.fields.additional_data.failure_reason}
      [] r.event = "registration_failure" ->
            {r.fields.additional_data.description}
            \cup {r.fields.additional_data.username[i] :
                     i \in DOMAIN r.fields.additional_data.username}
      [] r.event = "login_success" -> {r.fields.username}
      [] r.event = "login" ->
            {r.fields.resource_type, r.fields.resource_id, r.fields.changes.status}
      [] r.event = "create" ->
            {r.fields.resource_type, r.fields.resource_id, r.fields.changes.username,
             r.fields.changes.status}
      [] r.event = "business" -> {r.fields.event, r.fields.details.username}
      [] r.event = "performance" -> {r.fields.operation}
      [] r.event = "function_failed" -> {r.fields.operation, r.fields.error_type}
      [] r.event = "unhandled_exception" -> {r.fields.error_type}

\* C12: no record logged during a login or registration request, on whatever
\* channel and whatever the outcome, carries a password.
C12_NoPasswordLogged ==
    out.route \in {"login", "register"}
    => \A i \in 1..Len(out.log), pw \in Passwords : pw \notin Texts(out.log[i])

\* a registration was refused for its passwords and a security record written
C12_Witness ==
    /\ out.route = "register" /\ out.flash = "Passwords do not match"
    /\ Len(SecurityRecords(out.log)) = 1

\* C13: a logout request leaves the session without user id and answers with
\* the logged-out message; it emits exactly one audit record logout for the
\* user id the session held, and no audit record when the session held none.
C13_Logout ==
    [][out'.route = "logout" =>
          LET c == out'.client
              aud == AuditRecords(out'.log)
          IN  /\ session'[c] = 0
              /\ out'.flash = "You have been logged out"
              /\ out'.status = 302 /\ out'.location = "login"
              /\ IF session[c] # 0
                 THEN /\ Len(aud) = 1
                      /\ aud[1].event = "logout"
                      /\ aud[1].fields.user_id = session[c]
                 ELSE Len(aud) = 0]_vars

\* a logged-in user logged out
C13_Witness ==
    /\ out.route = "logout" /\ session[out.client] = 0
    /\ \E i \in 1..Len(out.log) :
          out.log[i].channel = "audit" /\ out.log[i].event = "logout"
                                       /\ out.log[i].fields.user_id \in Ids(users)

\* the stored users a login form matches
Matching(username, password) ==
    {u \in users : /\ Truthy(username) /\ Truthy(password)
                   /\ u.username = username[1]
                   /\ CheckPasswordHash(u.password_hash, password[1])}

\* the registration form is accepted
Registers(username, password, confirm_password) ==
    /\ Truthy(username) /\ Truthy(password) /\ Truthy(confirm_password)
    /\ password = confirm_password
    /\ UserByName(username[1]) = {}

\* C14: the session holds no user id or one; a login with matching
\* credentials sets it to that user's id, a registration to the id of the user
\* it creates, a logout clears it, and a failed login or a failed registration
\* (and a GET of either form) leaves it as it was.
C14_SessionUser ==
    /\ [](\A c \in OneClient : session[c] \in {0} \cup Ids(users))
    /\ [][\A c \in OneClient :
             /\ out'.route = "logout" => session'[c] = 0
             /\ out'.route = "login" =>
                   \A m \in {out'.method}, u \in Field(Usernames \cup {""}),
                      p \in Field(Passwords \cup {""}) :
                      Login(c, m, u, p)
                      => IF m = "POST" /\ Matching(u, p) # {}
                         THEN session'[c] \in Ids(Matching(u, p))
                         ELSE session'[c] = session[c]
             /\ out'.route = "register" =>
                   \A m \in {out'.method}, u \in Field(Usernames \cup {""}),
                      p \in Field(Passwords), q \in Field(Passwords) :
                      Register(c, m, u, p, q)
                      => IF m = "POST" /\ Registers(u, p, q)
                         THEN /\ session'[c] \in Ids(users') \ Ids(users)
                              /\ Get(users', session'[c]).username = u[1]
                         ELSE session'[c] = session[c]]_vars

\* a second user registered in a session that held the first user's id
C14_Witness ==
    /\ out.route = "register" /\ out.status = 302
    /\ session[out.client] = 2
    /\ Cardinality(users) = 2

\* the routes that need no authentication (AuthMiddleware.public_routes; the
\* application serves no favicon and its static files write no records)
PublicRoutes == {"login", "register"}

\* the step just taken is a completed request of a client to a route that
\* requires authentication
ProtectedRequest ==
    out'.client \in Clients /\ out'.method # "" /\ out'.route \notin PublicRoutes

\* the session of client c holds the id of a user that is not stored
StaleSession(c) == session[c] # 0 /\ ~ Has(users, session[c])

\* C15: a request whose session holds the id of a user that does not exist has
\* the user id cleared from the session and a security record invalid_session
\* emitted (stated for the routes that never write the session themselves).
C15_InvalidSession ==
    [][(ProtectedRequest /\ out'.route # "logout" /\ StaleSession(out'.client))
       => /\ session'[out'.client] = 0
          /\ \E i \in 1..Len(out'.log) : out'.log[i].event = "invalid_session"]_vars

\* C16: a request without authenticated user to a route other than login and
\* register is redirected to login with a flash message and leaves posts,
\* comments, likes and follow edges as they were.
C16_UnauthenticatedRedirect ==
    [][(ProtectedRequest /\ GetCurrentUser(session[out'.client]) = 0)
       => /\ out'.status = 302 /\ out'.location = "login"
          /\ out'.flash # ""
          /\ posts' = posts /\ comments' = comments /\ likes' = likes
          /\ followers' = followers]_vars

\* C17: when a request without session to a protected route was redirected to
\* login, the requested URL is kept for the redirect after login: the client's
\* next request, a successful login, is redirected to that route.
C17_NextUrl ==
    [][(/\ out.client \in Clients /\ out.method # ""
        /\ out.route \notin PublicRoutes \cup {"logout", "index"}
        /\ out.status = 302 /\ out.location = "login"
        /\ out'.client = out.client /\ out'.route = "login"
        /\ out'.flash = "Login successful!")
       => out'.location = out.route]_vars

\* the positions in a payload: the index sequences leading to its nodes
RECURSIVE Paths(_)
Paths(data) ==
    {<<>>} \cup UNION {{<<i>> \o q : q \in Paths(data.items[i][2])} : i \in DOMAIN data.items}

\* the node at a position and the key it is stored under
RECURSIVE NodeAt(_, _)
NodeAt(data, path) ==
    IF path = <<>> THEN data ELSE NodeAt(data.items[path[1]][2], Tail(path))
KeyAt(data, path) ==
    NodeAt(data, SubSeq(path, 1, Len(path) - 1)).items[path[Len(path)]][1]

\* no key above the position is on the denylist
Uncovered(data, path) ==
    \A j \in 1..(Len(path) - 1) : ~ IsSensitive(KeyAt(data, SubSeq(path, 1, j)))

\* C18: formatting a security record replaces the value under every key that
\* contains a denylist term, whatever its case and at whatever depth in maps
\* and lists, by the marker, keeps every key and every container, and leaves
\* every scalar under another key as it was; myKEY and token are such keys,
\* id and ke are not.
C18_Masking ==
    /\ [](\A k \in PayloadKeys :
             IsSensitive(k) <=> k \in {<<"t","o","k","e","n">>, <<"m","y","K","E","Y">>})
    /\ [][(out.signal = "Emitted" /\ out'.signal = "Formatted") =>
             LET raw == out.log[1].fields
                 masked == out'.log[1].fields
             IN  /\ masked.kind = raw.kind
                 /\ \A path \in Paths(raw) :
                       (path # <<>> /\ Uncovered(raw, path))
                       => /\ path \in Paths(masked)
                          /\ KeyAt(masked, path) = KeyAt(raw, path)
                          /\ IF IsSensitive(KeyAt(raw, path))
                             THEN NodeAt(masked, path) = Scalar(MASKED)
                             ELSE /\ NodeAt(masked, path).kind = NodeAt(raw, path).kind
                                  /\ Len(NodeAt(masked, path).items)
                                       = Len(NodeAt(raw, path).items)
                                  /\ NodeAt(raw, path).kind = "scalar"
                                       => NodeAt(masked, path) = NodeAt(raw, path)]_vars

\* a formatted record whose payload holds, in a list in a map, a map with the
\* key myKEY masked next to the key id left alone
C18_Witness ==
    /\ out.signal = "Formatted"
    /\ Payload.kind = "map" /\ Len(Payload.items) >= 1
    /\ Payload.items[1][2].kind = "list" /\ Len(Payload.items[1][2].items) >= 1
    /\ Payload.items[1][2].items[1][2]
         = MapOf(<< <<<<"m","y","K","E","Y">>, Scalar(MASKED)>>, <<<<"i","d">>, Scalar("v")>> >>)

\* C19: a formatted record is a fixed point of masking, mask(mask(p)) =
\* mask(p), and holds the marker, not a value of its own, under every key on
\* the denylist at every depth.
C19_Idempotent ==
    out.signal = "Formatted"
    => /\ MaskSensitiveData(Payload) = Payload
       /\ \A path \in Paths(Payload) :
             (path # <<>> /\ IsSensitive(KeyAt(Payload, path)))
             => NodeAt(Payload, path) = Scalar(MASKED)

\* a formatted record with a masked key two maps deep
C19_Witness ==
    /\ out.signal = "Formatted"
    /\ \E path \in Paths(Payload) :
          /\ Len(path) = 3
          /\ KeyAt(Payload, path) = <<"t","o","k","e","n">>
          /\ NodeAt(Payload, path) = Scalar(MASKED)
          /\ KeyAt(Payload, SubSeq(path, 1, 2)) = <<"k","e">>

\* C20: every completed request wrote a request_start record first and a
\* request_end record last, one of each, the last with the status code of the
\* response and a duration, and every record written during the request
\* carries the one correlation id that before_request generated.
C20_Correlation ==
    out.method \in Methods
    => LET n == Len(out.log)
       IN  /\ n >= 2
           /\ out.log[1].event = "request_start"
           /\ out.log[n].event = "request_end"
           /\ out.log[n].fields.status_code = out.status
           /\ "duration_ms" \in DOMAIN out.log[n].fields
           /\ \A i \in 2..(n - 1) : out.log[i].event \notin {"request_start", "request_end"}
           /\ out.log[1].correlation_id \in CorrelationIds
           /\ \A i \in 1..n : out.log[i].correlation_id = out.log[1].correlation_id

\* a request refused by the ownership gate and ended by the error handler:
\* the security record and the unhandled_exception record carry the id of
\* the request_start record, and request_end reports 500
C20_Witness ==
    /\ out.method \in Methods
    /\ out.signal = "Forbidden"
    /\ out.log[1].event = "request_start"
    /\ out.log[1].correlation_id = "uuid2"
    /\ \E i, j \in 2..(Len(out.log) - 1) :
          /\ out.log[i].channel = "security"
          /\ out.log[i].correlation_id = "uuid2"
          /\ out.log[j].event = "unhandled_exception"
          /\ out.log[j].correlation_id = "uuid2"
    /\ out.log[Len(out.log)].fields.status_code = 500

MutatingRoutes ==
    {"register", "create_post", "edit_post", "delete_post", "add_comment",
     "edit_comment", "delete_comment", "toggle_like", "follow_user", "unfollow_user"}

\* C21: a request to a mutating route whose commit failed has written no
\* audit record.
C21_AuditOnlyIfCommitted ==
    (out.route \in MutatingRoutes /\ out.signal \in {OperationalError, "IntegrityError"})
    => Len(AuditRecords(out.log)) = 0

\* the routes of app_jinja.py behind log_execution_time, behind log_user_action
TimedRoutes == {"login", "register", "logout"}
ActionRoutes == MutatingRoutes \ {"register"}

WrapperRecords(log) ==
    SelectSeq(log, LAMBDA r : r.event \in {"performance", "function_failed",
                                           "user_action_completed", "user_action_failed"})

\* what the wrapped function of the request just completed returned or raised
Inner ==
    Result(IF out.signal = "Ok" THEN out.status ELSE 0, out.location, out.signal,
           TRUE, out.flash, <<>>)
Wrapped ==
    IF out.route \in TimedRoutes THEN LogExecutionTime(out.route, Inner)
    ELSE LogUserAction(out.route, session[out.client], Inner)

\* C22: a request whose wrapped function was called has exactly one record
\* of the wrapper, with the duration, written after the function's own
\* records: the success record when the function returned, and then the
\* response is the function's; the error record with the exception type when
\* it raised, and then the same exception reached the error handler.  The
\* wrapper hands on status, location, message and exception unchanged.
C22_Wrappers ==
    (out.method \in Methods /\ out.route \in TimedRoutes \cup ActionRoutes /\ out.body_ran)
    => LET W == WrapperRecords(out.log)
           n == Len(out.log)
       IN  /\ Len(W) = 1
           /\ "duration_ms" \in DOMAIN W[1].fields
           /\ IF out.signal = "Ok"
              THEN /\ W[1].event \in {"performance", "user_action_completed"}
                   /\ out.log[n - 1] = W[1]
                   /\ out.status \in {200, 302}
              ELSE /\ W[1].event \in {"function_failed", "user_action_failed"}
                   /\ W[1].fields.error_type = out.signal
                   /\ out.log[n - 2] = W[1]
                   /\ out.log[n - 1].event = "unhandled_exception"
                   /\ out.log[n - 1].fields.error_type = out.signal
           /\ [Wrapped EXCEPT !.log = <<>>] = Inner
           /\ Len(Wrapped.log) = 1

\* a delete_post whose commit raised: the audit record, then the wrapper's
\* error record naming OperationalError, then the error handler's
C22_Witness ==
    /\ out.route = "delete_post" /\ out.signal = OperationalError
    /\ Len(out.log) = 6
    /\ out.log[4].event = "user_action_failed"
    /\ out.log[4].fields.error_type = OperationalError
    /\ out.log[5].event = "unhandled_exception"

\* the three checks of register, lines 86-111
RegistrationInvalid(username, password, confirm_password) ==
    \/ ~ Truthy(username) \/ ~ Truthy(password) \/ ~ Truthy(confirm_password)
    \/ password # confirm_password
    \/ UserByName(username[1]) # {}

\* the request just made to a text route, with the form text t
TextRequest(t) ==
    LET c == out'.client
        id == out'.arg
    IN  CASE out'.route = "create_post" -> CreatePost(c, t)
          [] out'.route = "add_comment" -> AddComment(c, id, t)
          [] out'.route = "edit_post" -> EditPost(c, id, "POST", t)
          [] out'.route = "edit_comment" -> EditComment(c, id, "POST", t)

\* C23: a registration POST with a field missing, with passwords that differ
\* or with a username already taken leaves the user table and the session as
\* they were; a POST to create_post, add_comment, edit_post or edit_comment
\* whose text is absent, empty or blank leaves the post and comment tables as
\* they were and writes no audit record.
C23_ValidationFrame ==
    [][/\ (out'.route = "register" /\ out'.method = "POST")
          => \A c \in {out'.client}, u \in FormNames, p \in FormPasswords,
                q \in FormConfirms :
                (RegistrationInvalid(u, p, q) /\ Register(c, "POST", u, p, q))
                => users' = users /\ session' = session
                   /\ Len(AuditRecords(out'.log)) = 0
       /\ (out'.route \in {"create_post", "add_comment", "edit_post", "edit_comment"}
           /\ out'.method = "POST")
          => \A t \in FormTexts(<<"a">>) \cup FormTexts(<<SP, "b", SP>>) :
                (~ (Truthy(t) /\ Strip(t[1]) # <<>>) /\ TextRequest(t))
                => posts' = posts /\ comments' = comments
                   /\ Len(AuditRecords(out'.log)) = 0]_vars

\* a taken username was refused to a client without a session
C23_Witness ==
    /\ out.route = "register" /\ out.flash = "Username already exists"
    /\ session[out.client] = 0
    /\ Cardinality(users) = 1

UnhandledRecords(log) == SelectSeq(log, LAMBDA r : r.event = "unhandled_exception")

FollowRequest(route) ==
    /\ out'.route = route /\ out'.method = "GET"
    /\ GetCurrentUser(session[out'.client]) \notin {0, out'.arg}
    /\ Has(users, out'.arg)
OtherEdges(table, uid, vid) == table \ EdgesOf(table, uid, vid)

\* the request completing had found A following B, and an unfollow request
\* committed since
Unfollowed(c, A, B) ==
    req[c].pc = "follow_user" /\ req[c].is_following /\ ~ IsFollowing(A, B)

\* C25: the followers table never holds two rows for one pair.  After a
\* follow request of A for B (A # B), however it interleaved with another
\* follow request and whatever it answered, exactly one row (A, B) exists and
\* every other pair, (B, A) included, is as before; following again changes
\* nothing.  (A follow request overtaken by an unfollow of the pair leaves the
\* table as the unfollow left it.)  After an unfollow request no row (A, B)
\* exists and every other pair is as before; without a row it changes
\* nothing.
C25_FollowEdges ==
    /\ [](\A a \in UserIds, b \in UserIds : Cardinality(EdgesOf(followers, a, b)) <= 1)
    /\ [][LET A == GetCurrentUser(session[out'.client])
              B == out'.arg
          IN  /\ FollowRequest("follow_user")
                 => /\ IF Unfollowed(out'.client, A, B) THEN followers' = followers
                       ELSE Cardinality(EdgesOf(followers', A, B)) = 1
                    /\ OtherEdges(followers', A, B) = OtherEdges(followers, A, B)
                    /\ IsFollowing(A, B) => followers' = followers
              /\ FollowRequest("unfollow_user")
                 => /\ EdgesOf(followers', A, B) = {}
                    /\ OtherEdges(followers', A, B) = OtherEdges(followers, A, B)
                    /\ ~ IsFollowing(A, B) => followers' = followers]_vars

\* of two follow requests of user 1 for user 2 that both found no row, the
\* second was refused by the primary key: one row, and none for (2, 1)
C25_Witness ==
    /\ out.route = "follow_user" /\ out.signal = "IntegrityError"
    /\ Cardinality(EdgesOf(followers, 1, 2)) = 1
    /\ EdgesOf(followers, 2, 1) = {}

BusinessRecords(log) == SelectSeq(log, LAMBDA r : r.event = "business")

\* the request just completed called log_login_attempt (every login POST),
\* log_registration (a registration that succeeded) or log_logout (a logout
\* with a session)
DomainHelperCalled ==
    \/ out.route = "login" /\ out.method = "POST"
    \/ out.route = "register" /\ out.method = "POST" /\ out.status = 302
    \/ out.route = "logout" /\ \E i \in 1..Len(out.log) : out.log[i].event = "logout"

\* C26: a request that called one domain event helper once has exactly one
\* audit record and exactly one business-event record in its log.
C26_AuditAndBusiness ==
    DomainHelperCalled
    => Len(AuditRecords(out.log)) = 1 /\ Len(BusinessRecords(out.log)) = 1

\* the keys of `changes` and `details` in the records of the post and comment
\* helpers: ids, lengths, changed-flags and the engagement type
IdKeys == {"post_id", "comment_id", "user_id"}
LengthKeys == {"caption_length", "old_caption_length", "new_caption_length",
               "text_length", "old_text_length", "new_text_length"}
FlagKeys == {"caption_changed", "text_changed"}

\* a payload that holds, under keys of those kinds only, numbers and flags
OnlyLengthsAndFlags(payload) ==
    /\ DOMAIN payload \subseteq IdKeys \cup LengthKeys \cup FlagKeys \cup {"engagement_type"}
    /\ \A k \in DOMAIN payload :
          CASE k \in IdKeys \cup LengthKeys -> payload[k] \in Nat
            [] k \in FlagKeys -> payload[k] \in BOOLEAN
            [] OTHER -> payload[k] = "comment"

\* C27: the audit and business records of a create_post, edit_post,
\* add_comment or edit_comment request hold ids, lengths and changed-flags
\* and nothing else: no caption and no comment text, old or new.
C27_NoContentLogged ==
    out.route \in {"create_post", "edit_post", "add_comment", "edit_comment"}
    => \A i \in 1..Len(out.log) :
          /\ out.log[i].channel = "audit"
             => /\ DOMAIN out.log[i].fields
                     = {"resource_type", "resource_id", "user_id", "changes"}
                /\ out.log[i].fields.resource_type \in {"post", "comment"}
                /\ out.log[i].fields.resource_id \in {Str(id) : id \in PostIds \cup CommentIds}
                /\ OnlyLengthsAndFlags(out.log[i].fields.changes)
          /\ out.log[i].event = "business"
             => /\ DOMAIN out.log[i].fields = {"event", "details"}
                /\ OnlyLengthsAndFlags(out.log[i].fields.details)

\* an edit that replaced the caption "a" by "b": the audit record holds the
\* two lengths, the business record the flag
C27_Witness ==
    /\ out.route = "edit_post" /\ out.signal = "Ok" /\ out.status = 302
    /\ \E i, j \in 1..Len(out.log) :
          /\ out.log[i].channel = "audit"
          /\ out.log[i].fields.changes
               = [old_caption_length |-> 1, new_caption_length |-> 1]
          /\ out.log[j].event = "business"
          /\ out.log[j].fields.details.caption_changed

C29_NoOrphans ==
    /\ \A l \in likes : Has(posts, l.post_id)
    /\ \A k \in comments : Has(posts, k.post_id)

\* C30: no two rows of the user table have the same username, however
\* registration requests interleave; a registration request refused by the
\* unique constraint leaves the user table and the session as they were.
C30_UniqueUsername ==
    /\ [](\A u \in users, v \in users : u.username = v.username => u = v)
    /\ [][(out'.route = "register" /\ out'.signal = "IntegrityError")
          => users' = users /\ session' = session]_vars

\* of two registrations of alice that both found no such user, the second
\* was refused: one alice, and the client of the second has no session
C30_Witness ==
    /\ out.route = "register" /\ out.signal = "IntegrityError"
    /\ Cardinality(UserByName("alice")) = 1
    /\ session[out.client] = 0

====
